---------------------------- MODULE Spec2Model ----------------------------
(***************************************************************************)
(* A model of the lattice editor embedded in src/app.py (the script of     *)
(* lines 70-513): the edge/degree maps, the viewport, the pointer and      *)
(* keyboard handlers, the state codec and the debounced save into the URL  *)
(* fragment.                                                               *)
(*                                                                         *)
(* Representation.                                                         *)
(*  - A JavaScript string is a sequence of character codes (UTF-16 code    *)
(*    units; every string of the model is ASCII).                          *)
(*  - A JavaScript number is a fixed-point integer counting 1/Scale units  *)
(*    (Scale = 100): 3.2 is 320, lattice column 9 is 900.  A source        *)
(*    expression is evaluated as its real value with the quotient taken    *)
(*    last and rounded down to the 1/Scale grid.                           *)
(*  - A JavaScript value (what JSON.parse returns, what importState is     *)
(*    given) is a record [t |-> tag, v |-> payload].                       *)
(***************************************************************************)
EXTENDS Integers, Sequences, FiniteSets, TLC

\* ------------------------------------------------------------------------
\* Numbers
\* ------------------------------------------------------------------------

\* Fixed-point units per 1.0
Scale == 10 * 10

Fx(n) == n * Scale

Min(a, b) == IF a < b THEN a ELSE b

Max(a, b) == IF a > b THEN a ELSE b

Abs(a) == IF a < 0 THEN 0 - a ELSE a

\* ------------------------------------------------------------------------
\* Strings (sequences of character codes)
\* ------------------------------------------------------------------------

IsDigit(c) == c >= 48 /\ c <= 57

\* s < t of two JavaScript strings: code unit by code unit, a proper prefix first
StrLess(s, t) ==
  \E i \in 1..Len(t) :
     /\ i <= Len(s) + 1
     /\ \A j \in 1..(i - 1) : s[j] = t[j]
     /\ (i = Len(s) + 1 \/ s[i] < t[i])

RECURSIVE Digits(_)
\* the decimal digits of a natural number
Digits(n) == IF n < 10 THEN <<48 + n>> ELSE Digits(n \div 10) \o <<48 + (n % 10)>>

\* Number -> String (template literal, JSON.stringify of a finite number)
NumStr(v) ==
  LET a  == Abs(v)
      ip == a \div Scale
      fp == a % Scale
  IN  (IF v < 0 THEN <<45>> ELSE <<>>)
      \o Digits(ip)
      \o (IF fp = 0 THEN <<>>
          ELSE IF fp % 10 = 0 THEN <<46, 48 + (fp \div 10)>>
          ELSE <<46, 48 + (fp \div 10), 48 + (fp % 10)>>)

RECURSIVE DigitsEnd(_, _)
\* the first index >= i of s that holds no digit
DigitsEnd(s, i) == IF i <= Len(s) /\ IsDigit(s[i]) THEN DigitsEnd(s, i + 1) ELSE i

RECURSIVE DigitsVal(_, _, _)
\* the value of the digits s[i..j-1]
DigitsVal(s, i, j) ==
  IF i >= j THEN 0 ELSE DigitsVal(s, i, j - 1) * 10 + (s[j - 1] - 48)

\* A decimal literal -?digits(.digits)? starting at s[i]:
\* [ok, v (fixed point, digits after the second decimal dropped), next, lead0]
ScanNumber(s, i) ==
  LET lit(neg, i0, i1) ==
        LET frac(dot, i2) ==
              LET val(mag) ==
                    [ok    |-> i1 > i0 /\ (dot => i2 > i1 + 1),
                     v     |-> IF neg THEN 0 - mag ELSE mag,
                     next  |-> i2,
                     lead0 |-> i1 > i0 + 1 /\ s[i0] = 48]
              IN  val(DigitsVal(s, i0, i1) * Scale
                      + (IF dot /\ i2 > i1 + 1 THEN (s[i1 + 1] - 48) * 10 ELSE 0)
                      + (IF dot /\ i2 > i1 + 2 THEN s[i1 + 2] - 48 ELSE 0))
            point(dot) == frac(dot, IF dot THEN DigitsEnd(s, i1 + 1) ELSE i1)
        IN  point(i1 <= Len(s) /\ s[i1] = 46)
      sign(neg) == LET from(i0) == lit(neg, i0, DigitsEnd(s, i0))
                   IN  from(IF neg THEN i + 1 ELSE i)
  IN  sign(i <= Len(s) /\ s[i] = 45)

RECURSIVE Split(_, _)
\* String.prototype.split on a one-character separator
Split(s, sep) ==
  IF \A i \in 1..Len(s) : s[i] # sep THEN <<s>>
  ELSE LET cut(p) == <<SubSeq(s, 1, p - 1)>> \o Split(SubSeq(s, p + 1, Len(s)), sep)
       IN  cut(CHOOSE i \in 1..Len(s) : s[i] = sep /\ \A j \in 1..(i - 1) : s[j] # sep)

\* ------------------------------------------------------------------------
\* JavaScript values
\* ------------------------------------------------------------------------

JNum(n) == [t |-> "num", v |-> n]

JStr(s) == [t |-> "str", v |-> s]

JArr(a) == [t |-> "arr", v |-> a]

\* an object: its own properties, <<key, value>> pairs in insertion order
JObj(p) == [t |-> "obj", v |-> p]

JBool(b) == [t |-> "bool", v |-> b]

JNull == [t |-> "null", v |-> 0]

JUndefined == [t |-> "undefined", v |-> 0]

JNaN == [t |-> "nan", v |-> 0]

\* the property names of the persisted state object
KeyEdges == <<101, 100, 103, 101, 115>>

KeyViewport == <<118, 105, 101, 119, 112, 111, 114, 116>>

KeyCx == <<99, 120>>

KeyCy == <<99, 121>>

KeyZoom == <<122, 111, 111, 109>>

\* !!v
Truthy(x) ==
  CASE x.t = "null"      -> FALSE
    [] x.t = "undefined" -> FALSE
    [] x.t = "nan"       -> FALSE
    [] x.t = "bool"      -> x.v
    [] x.t = "num"       -> x.v # 0
    [] x.t = "str"       -> Len(x.v) > 0
    [] OTHER             -> TRUE

\* x.key (undefined when x has no such own property; the last of repeated keys)
Get(x, key) ==
  IF x.t = "obj" /\ \E i \in 1..Len(x.v) : x.v[i][1] = key
  THEN x.v[CHOOSE i \in 1..Len(x.v) :
               x.v[i][1] = key /\ \A j \in (i + 1)..Len(x.v) : x.v[j][1] # key][2]
  ELSE JUndefined

\* x[i] of an array, 0-based
At(x, i) == IF x.t = "arr" /\ i < Len(x.v) THEN x.v[i + 1] ELSE JUndefined

IsArray(x) == x.t = "arr"

IsNumber(x) == x.t = "num" \/ x.t = "nan"

RECURSIVE ToStr(_)
\* String(x), as a template literal converts its operands
ToStr(x) ==
  CASE x.t = "num"       -> NumStr(x.v)
    [] x.t = "str"       -> x.v
    [] x.t = "bool"      -> IF x.v THEN <<116, 114, 117, 101>> ELSE <<102, 97, 108, 115, 101>>
    [] x.t = "null"      -> <<110, 117, 108, 108>>
    [] x.t = "undefined" -> <<117, 110, 100, 101, 102, 105, 110, 101, 100>>
    [] x.t = "nan"       -> <<78, 97, 78>>
    [] x.t = "arr"       ->
         IF Len(x.v) = 0 THEN <<>>
         ELSE LET el(e) == IF e.t \in {"null", "undefined"} THEN <<>> ELSE ToStr(e)
              IN  IF Len(x.v) = 1 THEN el(x.v[1])
                  ELSE ToStr(JArr(SubSeq(x.v, 1, Len(x.v) - 1))) \o <<44>> \o el(x.v[Len(x.v)])
    [] OTHER             -> <<91, 111, 98, 106, 101, 99, 116, 32, 79, 98, 106, 101, 99, 116, 93>>

\* Number(s) of a string: a decimal literal, the empty string is 0, anything else NaN
ToNumber(s) ==
  IF Len(s) = 0 THEN JNum(0)
  ELSE LET whole(r) == IF r.ok /\ r.next = Len(s) + 1 THEN JNum(r.v) ELSE JNaN
       IN  whole(ScanNumber(s, 1))

\* ------------------------------------------------------------------------
\* JSON
\* ------------------------------------------------------------------------

RECURSIVE Stringify(_)
\* JSON.stringify(x); NaN and, inside an array, undefined are written null, a
\* property whose value is undefined is left out
Stringify(x) ==
  LET quote(s) == <<34>> \o s \o <<34>>
      elem(e)  == IF e.t = "undefined" THEN <<110, 117, 108, 108>> ELSE Stringify(e)
      kept     == SelectSeq(x.v, LAMBDA p : p[2].t # "undefined")
      member(p) == quote(p[1]) \o <<58>> \o Stringify(p[2])
  IN  CASE x.t = "num"  -> NumStr(x.v)
        [] x.t = "str"  -> quote(x.v)
        [] x.t = "bool" -> IF x.v THEN <<116, 114, 117, 101>> ELSE <<102, 97, 108, 115, 101>>
        [] x.t = "arr"  ->
             IF Len(x.v) = 0 THEN <<91, 93>>
             ELSE IF Len(x.v) = 1 THEN <<91>> \o elem(x.v[1]) \o <<93>>
             ELSE LET init == Stringify(JArr(SubSeq(x.v, 1, Len(x.v) - 1)))
                  IN  SubSeq(init, 1, Len(init) - 1) \o <<44>> \o elem(x.v[Len(x.v)]) \o <<93>>
        [] x.t = "obj"  ->
             IF Len(kept) = 0 THEN <<123, 125>>
             ELSE IF Len(kept) = 1 THEN <<123>> \o member(kept[1]) \o <<125>>
             ELSE LET init == Stringify(JObj(SubSeq(kept, 1, Len(kept) - 1)))
                  IN  SubSeq(init, 1, Len(init) - 1) \o <<44>> \o member(kept[Len(kept)]) \o <<125>>
        [] OTHER        -> <<110, 117, 108, 108>>

IsJsonWs(c) == c \in {9, 10, 13, 32}

RECURSIVE SkipWs(_, _)
SkipWs(s, i) == IF i <= Len(s) /\ IsJsonWs(s[i]) THEN SkipWs(s, i + 1) ELSE i

RECURSIVE Pow10(_)
Pow10(n) == IF n <= 0 THEN 1 ELSE 10 * Pow10(n - 1)

ParseFail(i) == [ok |-> FALSE, v |-> JNull, next |-> i]

\* a JSON number at s[i]: no leading zeros, an optional exponent
ParseNumber(s, i) ==
  LET num(r) ==
        LET expo(sg, e0) ==
              LET digits(e1) ==
                    IF e1 = e0 THEN ParseFail(i)
                    ELSE [ok   |-> TRUE,
                          v    |-> JNum(IF sg /\ s[r.next + 1] = 45
                                        THEN r.v \div Pow10(DigitsVal(s, e0, e1))
                                        ELSE r.v * Pow10(DigitsVal(s, e0, e1))),
                          next |-> e1]
              IN  digits(DigitsEnd(s, e0))
            signed(sg) == expo(sg, IF sg THEN r.next + 2 ELSE r.next + 1)
        IN  IF ~r.ok \/ r.lead0 THEN ParseFail(i)
            ELSE IF ~(r.next <= Len(s) /\ s[r.next] \in {69, 101})
                 THEN [ok |-> TRUE, v |-> JNum(r.v), next |-> r.next]
            ELSE signed(r.next + 1 <= Len(s) /\ s[r.next + 1] \in {43, 45})
  IN  num(ScanNumber(s, i))

\* a JSON string at s[i] (s[i] is the opening quote); escapes are not modelled:
\* a backslash or a control character fails
ParseString(s, i) ==
  IF \A j \in (i + 1)..Len(s) : s[j] # 34 THEN ParseFail(i)
  ELSE LET close(q) ==
             IF \E k \in (i + 1)..(q - 1) : s[k] < 32 \/ s[k] = 92 THEN ParseFail(i)
             ELSE [ok |-> TRUE, v |-> JStr(SubSeq(s, i + 1, q - 1)), next |-> q + 1]
       IN  close(CHOOSE j \in (i + 1)..Len(s) :
                   s[j] = 34 /\ \A k \in (i + 1)..(j - 1) : s[k] # 34)

\* the literal w at s[i]
ParseLiteral(s, i, w, val) ==
  IF i + Len(w) - 1 <= Len(s) /\ SubSeq(s, i, i + Len(w) - 1) = w
  THEN [ok |-> TRUE, v |-> val, next |-> i + Len(w)]
  ELSE ParseFail(i)

\* an object's properties with key set to val (a repeated key keeps its place)
PutProp(props, key, val) ==
  IF \E i \in 1..Len(props) : props[i][1] = key
  THEN [i \in 1..Len(props) |-> IF props[i][1] = key THEN <<key, val>> ELSE props[i]]
  ELSE Append(props, <<key, val>>)

RECURSIVE ParseValue(_, _), ParseElems(_, _, _), ParseMembers(_, _, _)

\* after "[": the empty array, or its elements
ArrOpen(s, j) ==
  IF j <= Len(s) /\ s[j] = 93
  THEN [ok |-> TRUE, v |-> JArr(<<>>), next |-> j + 1]
  ELSE ParseElems(s, j, <<>>)

\* after "{": the empty object, or its members
ObjOpen(s, j) ==
  IF j <= Len(s) /\ s[j] = 125
  THEN [ok |-> TRUE, v |-> JObj(<<>>), next |-> j + 1]
  ELSE ParseMembers(s, j, <<>>)

\* one JSON value starting at s[i], which is no white space
ParseAt(s, i) ==
  IF i > Len(s) THEN ParseFail(i)
  ELSE CASE s[i] = 123 -> ObjOpen(s, SkipWs(s, i + 1))
         [] s[i] = 91  -> ArrOpen(s, SkipWs(s, i + 1))
         [] s[i] = 34  -> ParseString(s, i)
         [] s[i] = 116 -> ParseLiteral(s, i, <<116, 114, 117, 101>>, JBool(TRUE))
         [] s[i] = 102 -> ParseLiteral(s, i, <<102, 97, 108, 115, 101>>, JBool(FALSE))
         [] s[i] = 110 -> ParseLiteral(s, i, <<110, 117, 108, 108>>, JNull)
         [] s[i] = 45 \/ IsDigit(s[i]) -> ParseNumber(s, i)
         [] OTHER -> ParseFail(i)

\* one JSON value starting at or after s[i0]: [ok, v, next]
ParseValue(s, i0) == ParseAt(s, SkipWs(s, i0))

\* after the elements acc, at s[j]: "]" ends the array, "," goes on
ElemsSep(s, acc, j) ==
  IF j > Len(s) THEN ParseFail(j)
  ELSE IF s[j] = 93 THEN [ok |-> TRUE, v |-> JArr(acc), next |-> j + 1]
  ELSE IF s[j] = 44 THEN ParseElems(s, j + 1, acc)
  ELSE ParseFail(j)

\* the element r just parsed joins acc
ElemsAfter(s, acc, r) ==
  IF ~r.ok THEN ParseFail(r.next) ELSE ElemsSep(s, Append(acc, r.v), SkipWs(s, r.next))

\* the elements of an array from s[i] on, up to and with "]"
ParseElems(s, i, acc) == ElemsAfter(s, acc, ParseValue(s, i))

\* after the members acc, at s[j]: "}" ends the object, "," goes on
MemberSep(s, acc, j) ==
  IF j > Len(s) THEN ParseFail(j)
  ELSE IF s[j] = 125 THEN [ok |-> TRUE, v |-> JObj(acc), next |-> j + 1]
  ELSE IF s[j] = 44 THEN ParseMembers(s, j + 1, acc)
  ELSE ParseFail(j)

\* the value r just parsed is the member key of acc
MemberAfter(s, acc, key, r) ==
  IF ~r.ok THEN ParseFail(r.next)
  ELSE MemberSep(s, PutProp(acc, key, r.v), SkipWs(s, r.next))

\* the ":" at s[c] and the member's value
MemberValue(s, acc, key, c) ==
  IF c <= Len(s) /\ s[c] = 58 THEN MemberAfter(s, acc, key, ParseValue(s, c + 1))
  ELSE ParseFail(c)

\* the key k just parsed
MemberColon(s, acc, k) ==
  IF ~k.ok THEN ParseFail(k.next) ELSE MemberValue(s, acc, k.v.v, SkipWs(s, k.next))

\* a member's key, a string at s[i]
MemberKey(s, i, acc) ==
  IF i <= Len(s) /\ s[i] = 34 THEN MemberColon(s, acc, ParseString(s, i))
  ELSE ParseFail(i)

\* the members of an object from s[i0] on, up to and with "}"
ParseMembers(s, i0, acc) == MemberKey(s, SkipWs(s, i0), acc)

\* the parse result r, if it ends at position e of the text
WholeText(text, r, e) ==
  IF r.ok /\ e = Len(text) + 1 THEN [ok |-> TRUE, v |-> r.v] ELSE [ok |-> FALSE, v |-> JNull]

\* the parse result r, if only white space follows it
ParsedAll(text, r) == WholeText(text, r, IF r.ok THEN SkipWs(text, r.next) ELSE 0)

\* JSON.parse(text): [ok, v]; ok = FALSE stands for the SyntaxError it throws
JsonParse(text) == ParsedAll(text, ParseValue(text, 1))

\* ------------------------------------------------------------------------
\* StateCodec: URL-safe base64 of the UTF-8 JSON text
\* ------------------------------------------------------------------------

\* the base64 alphabet: A-Z a-z 0-9 + /
B64Char(i) ==
  IF i < 26 THEN 65 + i
  ELSE IF i < 52 THEN 97 + (i - 26)
  ELSE IF i < 62 THEN 48 + (i - 52)
  ELSE IF i = 62 THEN 43 ELSE 47

\* the value of a base64 character, -1 for any other character
B64Val(c) ==
  IF c >= 65 /\ c <= 90 THEN c - 65
  ELSE IF c >= 97 /\ c <= 122 THEN c - 97 + 26
  ELSE IF c >= 48 /\ c <= 57 THEN c - 48 + 52
  ELSE IF c = 43 THEN 62
  ELSE IF c = 47 THEN 63 ELSE 0 - 1

\* TextEncoder.encode: the UTF-8 bytes of a string of BMP code points
Utf8Encode(s) ==
  LET enc(c) == IF c < 128 THEN <<c>>
                ELSE IF c < 2048 THEN <<192 + (c \div 64), 128 + (c % 64)>>
                ELSE <<224 + (c \div 4096), 128 + ((c \div 64) % 64), 128 + (c % 64)>>
      F[i \in 0..Len(s)] == IF i = 0 THEN <<>> ELSE F[i - 1] \o enc(s[i])
  IN  F[Len(s)]

\* TextDecoder.decode (not fatal): a leading byte order mark is dropped, an ASCII
\* byte is its character, any other byte is written U+FFFD
Utf8Decode(b) ==
  LET bom  == Len(b) >= 3 /\ b[1] = 239 /\ b[2] = 187 /\ b[3] = 191
      body == IF bom THEN SubSeq(b, 4, Len(b)) ELSE b
  IN  [i \in 1..Len(body) |-> IF body[i] < 128 THEN body[i] ELSE 65533]

\* btoa of a binary string (one character per byte)
Btoa(b) ==
  LET n == Len(b)
      byte(i) == IF i <= n THEN b[i] ELSE 0
  IN  [i \in 1..(4 * ((n + 2) \div 3)) |->
         LET q  == (i - 1) \div 4
             r  == (i - 1) % 4
             b1 == byte(3 * q + 1)
             b2 == byte(3 * q + 2)
             b3 == byte(3 * q + 3)
         IN  CASE r = 0 -> B64Char(b1 \div 4)
               [] r = 1 -> B64Char((b1 % 4) * 16 + (b2 \div 16))
               [] r = 2 -> IF 3 * q + 2 > n THEN 61
                           ELSE B64Char((b2 % 16) * 4 + (b3 \div 64))
               [] OTHER -> IF 3 * q + 3 > n THEN 61 ELSE B64Char(b3 % 64)]

\* atob (forgiving base64 decode): [ok, bytes]; ok = FALSE stands for the
\* InvalidCharacterError it throws
Atob(s0) ==
  LET decode(s, n) ==
        LET val(i) == IF i <= n THEN B64Val(s[i]) ELSE 0
        IN  IF n % 4 = 1 \/ \E i \in 1..n : B64Val(s[i]) < 0
            THEN [ok |-> FALSE, bytes |-> <<>>]
            ELSE [ok    |-> TRUE,
                  bytes |-> [k \in 1..((n * 6) \div 8) |->
                               LET q == (k - 1) \div 3
                                   r == (k - 1) % 3
                               IN  CASE r = 0 -> val(4 * q + 1) * 4 + (val(4 * q + 2) \div 16)
                                     [] r = 1 -> (val(4 * q + 2) % 16) * 16 + (val(4 * q + 3) \div 4)
                                     [] OTHER -> (val(4 * q + 3) % 4) * 64 + val(4 * q + 4)]]
      unpad(s1, n1) ==
        LET cut(c) == decode(SubSeq(s1, 1, n1 - c), n1 - c)
        IN  cut(IF n1 % 4 = 0 /\ n1 >= 1 /\ s1[n1] = 61
                THEN (IF n1 >= 2 /\ s1[n1 - 1] = 61 THEN 2 ELSE 1)
                ELSE 0)
      strip(s1) == unpad(s1, Len(s1))
  IN  strip(SelectSeq(s0, LAMBDA c : c \notin {9, 10, 12, 13, 32}))

\* the replacements of '+' and '/' without the removal of the padding
UrlSafeKeepPad(b64) ==
  [i \in 1..Len(b64) |-> IF b64[i] = 43 THEN 45 ELSE IF b64[i] = 47 THEN 95 ELSE b64[i]]

\* b64.replace(/\+/g,'-').replace(/\//g,'_').replace(/=+$/,'')
UrlSafe(b64) ==
  LET strip(sub) ==
        SubSeq(sub, 1, IF \A i \in 1..Len(sub) : sub[i] = 61 THEN 0
                       ELSE CHOOSE i \in 1..Len(sub) :
                              sub[i] # 61 /\ \A j \in (i + 1)..Len(sub) : sub[j] = 61)
  IN  strip([i \in 1..Len(b64) |->
               IF b64[i] = 43 THEN 45 ELSE IF b64[i] = 47 THEN 95 ELSE b64[i]])

\* s.replace(/-/g,'+').replace(/_/g,'/'); while (s.length % 4 !== 0) s += '='
UrlUnsafe(s) ==
  LET sub == [i \in 1..Len(s) |->
                IF s[i] = 45 THEN 43 ELSE IF s[i] = 95 THEN 47 ELSE s[i]]
      pad == (4 - (Len(s) % 4)) % 4
  IN  sub \o [i \in 1..pad |-> 61]

\* encodeStateToString(stateObj): the token ("" only when something throws,
\* which JSON.stringify and btoa do not on the values of the model)
encodeStateToString(stateObj) ==
  UrlSafe(Btoa(Utf8Encode(Stringify(stateObj))))

\* a decoding that gives the empty object, not null, when a step throws
decodeStateOrEmpty(s) ==
  LET parsed(js) == IF js.ok THEN js.v ELSE JObj(<<>>)
      text(bin) == IF bin.ok THEN parsed(JsonParse(Utf8Decode(bin.bytes))) ELSE JObj(<<>>)
  IN  text(Atob(UrlUnsafe(s)))

\* decodeStateFromString(s): the parsed value, or null when atob or JSON.parse throws
decodeStateFromString(s) ==
  LET parsed(js) == IF js.ok THEN js.v ELSE JNull
      text(bin) == IF bin.ok THEN parsed(JsonParse(Utf8Decode(bin.bytes))) ELSE JNull
  IN  text(Atob(UrlUnsafe(s)))

\* ------------------------------------------------------------------------
\* Configuration (CONFIG / GRID)
\* ------------------------------------------------------------------------

COLS == 128

ROWS == 178

DOT_SPACING == 9

EDGE_HIT_RADIUS == 10

\* 3.2
INITIAL_ZOOM == 320

BORDER == DOT_SPACING * 2

gridWidth == (COLS - 1) * DOT_SPACING

gridHeight == (ROWS - 1) * DOT_SPACING

fullWidth == gridWidth + BORDER * 2

fullHeight == gridHeight + BORDER * 2

DRAG_THRESHOLD == 6

\* ------------------------------------------------------------------------
\* State
\* ------------------------------------------------------------------------

VARIABLES
  phase,          \* "boot" until initialize() has run, then "ready"
  container,      \* the container element's clientWidth, clientHeight (pixels)
  canvas,         \* canvas.width, canvas.height (pixels)
  zoom,           \* zoom
  viewport,       \* viewport = { cx, cy, w, h }
  edges,          \* the edges Map: its keys in insertion order
  degree,         \* the degree Map: node key -> count
  saveTimer,      \* saveTimer: a timer id, 0 for null
  timers,         \* the browser's pending timeouts: [id, delay]
  isPointerDown,  \* isPointerDown
  pointerStart,   \* pointerStart
  isDragging,     \* isDragging
  hash,           \* window.location.hash
  search,         \* window.location.search
  lastCall,       \* history: the last addEdge/removeEdge/buildFullBookmarkURL call
                  \* and what it returned
  events,         \* history: the number of input events handled so far
  codec           \* a call of the codec on its own: its argument and its results

graphVars == <<edges, degree>>

viewVars == <<container, canvas, zoom, viewport>>

timerVars == <<saveTimer, timers>>

ptrVars == <<isPointerDown, pointerStart, isDragging>>

urlVars == <<hash, search>>

vars == <<phase, container, canvas, zoom, viewport, edges, degree, saveTimer, timers,
          isPointerDown, pointerStart, isDragging, hash, search, lastCall, events, codec>>

\* the null of a numeric field
Null == 0 - 1000000000

\* no call of the codec on its own
NoCodec == [stage |-> "idle", kind |-> "none", input |-> JNull, token |-> <<>>,
            output |-> JUndefined]

\* pointerStart = null
NoPointer == [null |-> TRUE, x |-> 0, y |-> 0, cx |-> 0, cy |-> 0]

\* ------------------------------------------------------------------------
\* LatticeGraph: the edge set and the degree map
\* ------------------------------------------------------------------------

\* a node object {x, y} at lattice column i, row j
Node(i, j) == [x |-> JNum(Fx(i)), y |-> JNum(Fx(j))]

nodeKey(x, y) == ToStr(x) \o <<44>> \o ToStr(y)

\* an edge key that keeps the endpoints in the order given
edgeKeyAsGiven(a, b) == nodeKey(a.x, a.y) \o <<124>> \o nodeKey(b.x, b.y)

edgeKey(a, b) ==
  LET order(ka, kb) == IF StrLess(ka, kb) THEN ka \o <<124>> \o kb ELSE kb \o <<124>> \o ka
  IN  order(nodeKey(a.x, a.y), nodeKey(b.x, b.y))

\* edges.has(k)
MapHas(E, k) == \E i \in 1..Len(E) : E[i] = k

\* a list that takes every key, present or not
MapAppend(E, k) == Append(E, k)

\* edges.set(k, true): a new key goes last, a present key keeps its place
MapAdd(E, k) == IF MapHas(E, k) THEN E ELSE Append(E, k)

\* edges.delete(k)
MapDelete(E, k) == SelectSeq(E, LAMBDA x : x # k)

\* degree.get(k) || dflt
DegGetOr(D, k, dflt) == IF k \in DOMAIN D /\ D[k] # 0 THEN D[k] ELSE dflt

\* degree.set(k, v)
DegSet(D, k, v) == [x \in (DOMAIN D) \cup {k} |-> IF x = k THEN v ELSE D[x]]

\* addEdge that tests neither the key's presence nor the degrees
AddEdgeUnchecked(E, D, a, b) ==
  [edges  |-> MapAdd(E, edgeKey(a, b)),
   degree |-> DegSet(DegSet(D, nodeKey(a.x, a.y), DegGetOr(D, nodeKey(a.x, a.y), 0) + 1),
                     nodeKey(b.x, b.y), DegGetOr(D, nodeKey(b.x, b.y), 0) + 1),
   ret    |-> TRUE,
   save   |-> TRUE]

\* addEdge(a, b) on the maps E, D: the maps after the call, the value returned
\* and whether scheduleSaveState() was called
AddEdge(E, D, a, b) ==
  LET body(k, na, nb) ==
        LET degs(da, db) ==
              IF da >= 2 \/ db >= 2
              THEN [edges |-> E, degree |-> D, ret |-> FALSE, save |-> FALSE]
              ELSE [edges  |-> MapAdd(E, k),
                    degree |-> DegSet(DegSet(D, na, da + 1), nb, db + 1),
                    ret    |-> TRUE,
                    save   |-> TRUE]
        IN  IF MapHas(E, k) THEN [edges |-> E, degree |-> D, ret |-> FALSE, save |-> FALSE]
            ELSE degs(DegGetOr(D, na, 0), DegGetOr(D, nb, 0))
  IN  body(edgeKey(a, b), nodeKey(a.x, a.y), nodeKey(b.x, b.y))

\* removeEdge that lowers the degree of the first endpoint only
RemoveEdgeOneSided(E, D, a, b) ==
  IF ~MapHas(E, edgeKey(a, b)) THEN [edges |-> E, degree |-> D, ret |-> FALSE, save |-> FALSE]
  ELSE [edges  |-> MapDelete(E, edgeKey(a, b)),
        degree |-> DegSet(D, nodeKey(a.x, a.y), DegGetOr(D, nodeKey(a.x, a.y), 1) - 1),
        ret    |-> TRUE,
        save   |-> TRUE]

\* removeEdge(a, b) on the maps E, D
RemoveEdge(E, D, a, b) ==
  LET body(k, na, nb) ==
        LET second(D1) == DegSet(D1, nb, DegGetOr(D1, nb, 1) - 1)
        IN  IF ~MapHas(E, k) THEN [edges |-> E, degree |-> D, ret |-> FALSE, save |-> FALSE]
            ELSE [edges  |-> MapDelete(E, k),
                  degree |-> second(DegSet(D, na, DegGetOr(D, na, 1) - 1)),
                  ret    |-> TRUE,
                  save   |-> TRUE]
  IN  body(edgeKey(a, b), nodeKey(a.x, a.y), nodeKey(b.x, b.y))

\* ------------------------------------------------------------------------
\* PersistenceScheduler
\* ------------------------------------------------------------------------

\* the id setTimeout returns: one no pending timeout has
FreshTimerId(T) ==
  CHOOSE n \in 1..(Cardinality(T) + 1) :
    /\ \A t \in T : t.id # n
    /\ \A m \in 1..(n - 1) : \E t \in T : t.id = m

\* scheduleSaveState without its clearTimeout
scheduleSaveStateNoClear(st, T, delay) ==
  [saveTimer |-> FreshTimerId(T),
   timers |-> T \cup {[id |-> FreshTimerId(T), delay |-> delay]}]

\* scheduleSaveState(delay) with saveTimer = st and the pending timeouts T
scheduleSaveState(st, T, delay) ==
  LET start(cleared) ==
        LET set(id) == [saveTimer |-> id,
                        timers |-> cleared \cup {[id |-> id, delay |-> delay]}]
        IN  set(FreshTimerId(cleared))
  IN  start(IF st # 0 THEN {t \in T : t.id # st} ELSE T)

\* the [aa[0], aa[1], bb[0], bb[1]] pushed for the key k
EdgeTuple(k) ==
  LET nums(str) == LET each(p) == JArr([i \in 1..Len(p) |-> ToNumber(p[i])])
                   IN  each(Split(str, 44))
      tuple(aa, bb) == JArr(<<At(aa, 0), At(aa, 1), At(bb, 0), At(bb, 1)>>)
      halves(ab) == tuple(nums(ab[1]), nums(ab[2]))
  IN  halves(Split(k, 124))

\* the stateObj that saveStateToURL, buildFullBookmarkURL and exportState build
StateObj(E, vp, z) ==
  JObj(<< <<KeyEdges, JArr([i \in 1..Len(E) |-> EdgeTuple(E[i])])>>,
          <<KeyViewport, JObj(<< <<KeyCx, JNum(vp.cx)>>,
                                 <<KeyCy, JNum(vp.cy)>>,
                                 <<KeyZoom, JNum(z)>> >>)>> >>)

\* "#state="
HashPrefix == <<35, 115, 116, 97, 116, 101, 61>>

\* a save that leaves the fragment as it is
saveStateToURLSkipped(E, vp, z, oldHash) == oldHash

\* saveStateToURL(): the location.hash after history.replaceState
saveStateToURL(E, vp, z, oldHash) ==
  LET write(token) == IF Len(token) = 0 THEN oldHash ELSE HashPrefix \o token
  IN  write(encodeStateToString(StateObj(E, vp, z)))

\* window.location.origin: "https://h"
LocationOrigin == <<104, 116, 116, 112, 115, 58, 47, 47, 104>>

\* window.location.pathname: "/p"
LocationPathname == <<47, 112>>

\* the URL built without window.location.search
buildFullBookmarkURLNoQuery(E, vp, z, srch) ==
  LocationOrigin \o LocationPathname \o HashPrefix \o encodeStateToString(StateObj(E, vp, z))

\* buildFullBookmarkURL(): the URL the promise resolves to, <<>> for null
buildFullBookmarkURL(E, vp, z, srch) ==
  LET url(token) == IF Len(token) = 0 THEN <<>>
                    ELSE LocationOrigin \o LocationPathname \o srch \o HashPrefix \o token
  IN  url(encodeStateToString(StateObj(E, vp, z)))

\* ------------------------------------------------------------------------
\* Viewport
\* ------------------------------------------------------------------------

\* canvas.width / zoom (pixels / fixed point -> fixed point)
Extent(pixels, z) == (pixels * Scale * Scale) \div z

\* Math.max(half, Math.min(full - half, c)) with half = extent/2
ClampCenter(extent, full, c) == Max(extent \div 2, Min(Fx(full) - (extent \div 2), c))

\* resizeCanvas()
resizeCanvas(ct, vp, z) ==
  LET sized(w, h) ==
        [canvas   |-> [width |-> ct.width, height |-> ct.height],
         viewport |-> [cx |-> IF vp.cx = Null THEN w \div 2 ELSE vp.cx,
                       cy |-> IF vp.cy = Null THEN h \div 2 ELSE vp.cy,
                       w  |-> w,
                       h  |-> h]]
  IN  sized(Extent(ct.width, z), Extent(ct.height, z))

\* fullToScreen(x, y) (fixed-point screen pixels)
fullToScreen(vp, cv, x, y) ==
  LET l == vp.cx - (vp.w \div 2)
      t == vp.cy - (vp.h \div 2)
  IN  [x |-> ((x - l) * cv.width) \div vp.w,
       y |-> ((y - t) * cv.height) \div vp.h]

\* screenToFull(sx, sy) of whole screen pixels sx, sy
screenToFull(vp, cv, sx, sy) ==
  LET l == vp.cx - (vp.w \div 2)
      t == vp.cy - (vp.h \div 2)
  IN  [x |-> l + ((sx * vp.w) \div cv.width),
       y |-> t + ((sy * vp.h) \div cv.height)]

\* ------------------------------------------------------------------------
\* Loading a state
\* ------------------------------------------------------------------------

RECURSIVE applyEdges(_, _, _, _)
\* the loop of applyState over obj.edges, from the i-th element (1-based) on
applyEdges(list, i, E, D) ==
  IF i > Len(list) THEN [edges |-> E, degree |-> D]
  ELSE IF ~IsArray(list[i]) \/ Len(list[i].v) < 4 THEN applyEdges(list, i + 1, E, D)
  ELSE LET put(k, na, nb) ==
             LET second(D1) == DegSet(D1, nb, DegGetOr(D1, nb, 0) + 1)
             IN  applyEdges(list, i + 1, MapAdd(E, k),
                            second(DegSet(D, na, DegGetOr(D, na, 0) + 1)))
           ends(a, b) == put(edgeKey(a, b), nodeKey(a.x, a.y), nodeKey(b.x, b.y))
       IN  ends([x |-> At(list[i], 0), y |-> At(list[i], 1)],
                [x |-> At(list[i], 2), y |-> At(list[i], 3)])

\* applyState(obj) on the state st = [edges, degree, zoom, viewport], canvas cv
applyState(obj, st, cv) ==
  IF ~Truthy(obj) THEN st
  ELSE
    LET view(g, vo) ==
          LET fields(oz, ox, oy) ==
                LET zoomed(z, cx, cy) ==
                      LET sized(w, h) ==
                            [edges    |-> g.edges,
                             degree   |-> g.degree,
                             zoom     |-> z,
                             viewport |-> [cx |-> ClampCenter(w, fullWidth, cx),
                                           cy |-> ClampCenter(h, fullHeight, cy),
                                           w  |-> w,
                                           h  |-> h]]
                      IN  sized(Extent(cv.width, z), Extent(cv.height, z))
                IN  zoomed(IF oz.t = "num" /\ oz.v > 0 THEN oz.v ELSE st.zoom,
                           IF ox.t = "num" THEN ox.v ELSE st.viewport.cx,
                           IF oy.t = "num" THEN oy.v ELSE st.viewport.cy)
          IN  IF Truthy(vo) /\ vo.t \in {"obj", "arr"}
              THEN fields(Get(vo, KeyZoom), Get(vo, KeyCx), Get(vo, KeyCy))
              ELSE [edges |-> g.edges, degree |-> g.degree,
                    zoom |-> st.zoom, viewport |-> st.viewport]
        loaded(oe) == view(IF IsArray(oe) THEN applyEdges(oe.v, 1, <<>>, <<>>)
                           ELSE [edges |-> <<>>, degree |-> <<>>],
                           Get(obj, KeyViewport))
    IN  loaded(Get(obj, KeyEdges))

\* "state"
ParamState == <<115, 116, 97, 116, 101>>

\* new URLSearchParams(search): has(name) and get(name).  A token holds no
\* '%' and no '+', so the decoding of the value leaves it as it is.
QueryParam(srch, name) ==
  LET nameOf(p) == Split(p, 61)[1]
      valOf(p)  == IF \E i \in 1..Len(p) : p[i] = 61
                   THEN SubSeq(p, (CHOOSE i \in 1..Len(p) :
                                     p[i] = 61 /\ \A j \in 1..(i - 1) : p[j] # 61) + 1, Len(p))
                   ELSE <<>>
      found(hits) == [has |-> Len(hits) > 0,
                      value |-> IF Len(hits) > 0 THEN valOf(hits[1]) ELSE <<>>]
      pairs(q) == found(SelectSeq(IF Len(q) = 0 THEN <<>> ELSE Split(q, 38),
                                  LAMBDA p : Len(p) > 0 /\ nameOf(p) = name))
  IN  pairs(IF Len(srch) > 0 /\ srch[1] = 63 THEN SubSeq(srch, 2, Len(srch)) ELSE srch)

\* the token taken from the query whenever the query has one
UrlTokenQueryFirst(h, srch) ==
  IF QueryParam(srch, ParamState).has THEN QueryParam(srch, ParamState)
  ELSE IF Len(h) >= 7 /\ SubSeq(h, 1, 7) = HashPrefix
  THEN [has |-> TRUE, value |-> SubSeq(h, 8, Len(h))]
  ELSE [has |-> FALSE, value |-> <<>>]

\* the token loadStateFromURL() decodes: the fragment's, else the query's
UrlToken(h, srch) ==
  IF Len(h) >= 7 /\ SubSeq(h, 1, 7) = HashPrefix
  THEN [has |-> TRUE, value |-> SubSeq(h, 8, Len(h))]
  ELSE QueryParam(srch, ParamState)

\* loadStateFromURL()
loadStateFromURL(h, srch) ==
  LET load(tok) == IF tok.has THEN decodeStateFromString(tok.value) ELSE JNull
  IN  load(UrlToken(h, srch))

\* tryRestoreFromURL(): whether a state was restored, and the state after it
tryRestoreFromURL(h, srch, st, cv) ==
  LET restore(obj) == IF ~Truthy(obj) THEN [restored |-> FALSE, st |-> st]
                      ELSE [restored |-> TRUE, st |-> applyState(obj, st, cv)]
  IN  restore(loadStateFromURL(h, srch))

\* ------------------------------------------------------------------------
\* HitTester
\* ------------------------------------------------------------------------

RECURSIVE IsqrtIn(_, _, _)
\* the largest r in lo..hi with r * r <= n
IsqrtIn(n, lo, hi) ==
  IF lo >= hi THEN lo
  ELSE LET mid == (lo + hi + 1) \div 2
       IN  IF mid * mid <= n THEN IsqrtIn(n, mid, hi) ELSE IsqrtIn(n, lo, mid - 1)

\* Math.sqrt of a squared fixed-point distance, rounded down
Sqrt(n) == IsqrtIn(n, 0, 40000)

\* Math.round of the quotient num / den (den > 0): halves go up
RoundDiv(num, den) == (2 * num + den) \div (2 * den)

\* the candidates without the tests of nx, ny against COLS and ROWS
HitCandidatesUnbounded(fullX, fullY) ==
  LET ix == RoundDiv(fullX - Fx(BORDER), Fx(DOT_SPACING))
      iy == RoundDiv(fullY - Fx(BORDER), Fx(DOT_SPACING))
      cand(n) ==
        LET cell == n \div 2
            nx == ix + (cell \div 5) - 2
            ny == iy + (cell % 5) - 2
            horiz == n % 2 = 0
            ax == Fx(BORDER) + nx * Fx(DOT_SPACING)
            ay == Fx(BORDER) + ny * Fx(DOT_SPACING)
            bx == IF horiz THEN Fx(BORDER) + (nx + 1) * Fx(DOT_SPACING) ELSE ax
            by == IF horiz THEN ay ELSE Fx(BORDER) + (ny + 1) * Fx(DOT_SPACING)
            mx == (ax + bx) \div 2
            my == (ay + by) \div 2
        IN  [valid |-> TRUE,
             dist  |-> (mx - fullX) * (mx - fullX) + (my - fullY) * (my - fullY),
             a     |-> Node(nx, ny),
             b     |-> IF horiz THEN Node(nx + 1, ny) ELSE Node(nx, ny + 1)]
  IN  SelectSeq([n \in 1..50 |-> cand(n - 1)], LAMBDA c : c.valid)

\* the candidates findNearestEdgeToFull examines, in the order of its loops:
\* dx outer, dy inner, the horizontal edge of a cell before its vertical edge
HitCandidates(fullX, fullY) ==
  LET ix == RoundDiv(fullX - Fx(BORDER), Fx(DOT_SPACING))
      iy == RoundDiv(fullY - Fx(BORDER), Fx(DOT_SPACING))
      cand(n) ==
        LET cell == n \div 2
            nx == ix + (cell \div 5) - 2
            ny == iy + (cell % 5) - 2
            horiz == n % 2 = 0
            ax == Fx(BORDER) + nx * Fx(DOT_SPACING)
            ay == Fx(BORDER) + ny * Fx(DOT_SPACING)
            bx == IF horiz THEN Fx(BORDER) + (nx + 1) * Fx(DOT_SPACING) ELSE ax
            by == IF horiz THEN ay ELSE Fx(BORDER) + (ny + 1) * Fx(DOT_SPACING)
            mx == (ax + bx) \div 2
            my == (ay + by) \div 2
        IN  [valid |-> IF horiz
                       THEN nx >= 0 /\ nx + 1 < COLS /\ ny >= 0 /\ ny < ROWS
                       ELSE nx >= 0 /\ nx < COLS /\ ny >= 0 /\ ny + 1 < ROWS,
             dist  |-> (mx - fullX) * (mx - fullX) + (my - fullY) * (my - fullY),
             a     |-> Node(nx, ny),
             b     |-> IF horiz THEN Node(nx + 1, ny) ELSE Node(nx, ny + 1)]
  IN  SelectSeq([n \in 1..50 |-> cand(n - 1)], LAMBDA c : c.valid)

\* the search with d2 <= best.dist: of equally near candidates the last stays
findNearestEdgeLastWins(fullX, fullY) ==
  LET best(cs) ==
        IF Len(cs) = 0
        THEN [found |-> FALSE, dist |-> 0, a |-> Node(0, 0), b |-> Node(0, 0)]
        ELSE LET at(i) == [found |-> TRUE, dist |-> cs[i].dist, a |-> cs[i].a, b |-> cs[i].b]
             IN  at(CHOOSE i \in 1..Len(cs) :
                      /\ \A j \in 1..Len(cs) : cs[i].dist <= cs[j].dist
                      /\ \A j \in (i + 1)..Len(cs) : cs[j].dist > cs[i].dist)
  IN  best(HitCandidates(fullX, fullY))

\* findNearestEdgeToFull(fullX, fullY): found = FALSE stands for dist: Infinity;
\* of equally near candidates the first examined stays (d2 < best.dist)
findNearestEdgeToFull(fullX, fullY) ==
  LET best(cs) ==
        IF Len(cs) = 0
        THEN [found |-> FALSE, dist |-> 0, a |-> Node(0, 0), b |-> Node(0, 0)]
        ELSE LET at(i) == [found |-> TRUE, dist |-> cs[i].dist, a |-> cs[i].a, b |-> cs[i].b]
             IN  at(CHOOSE i \in 1..Len(cs) :
                      /\ \A j \in 1..Len(cs) : cs[i].dist <= cs[j].dist
                      /\ \A j \in 1..(i - 1) : cs[j].dist > cs[i].dist)
  IN  best(HitCandidates(fullX, fullY))

\* ------------------------------------------------------------------------
\* The environment's inputs
\* ------------------------------------------------------------------------

\* the most input events of one behaviour
MaxEvents == 4

\* the most edges the edge set holds when the environment calls addEdge
MaxEdges == 3

\* container sizes (clientWidth, clientHeight)
ContainerSizes == {[width |-> 800, height |-> 600], [width |-> 1200, height |-> 900]}

\* pointer positions (clientX, clientY)
PointerPoints == {<<72, 58>>, <<76, 58>>, <<78, 58>>, <<58, 72>>, <<300, 200>>}

\* keys: the four arrows, the zoom keys and one key the handler ignores
Keys == {"ArrowLeft", "ArrowRight", "ArrowUp", "ArrowDown", "+", "=", "-", "_", "a"}

\* the lattice nodes (column, row) the environment passes to addEdge/removeEdge
ApiNodes == {<<i, 0>> : i \in 9..11} \cup {<<10, 1>>}

\* in-bounds lattice-adjacent pairs of them, in either order
ApiPairs ==
  {p \in ApiNodes \X ApiNodes :
     /\ p[1][1] < COLS /\ p[1][2] < ROWS /\ p[2][1] < COLS /\ p[2][2] < ROWS
     /\ Abs(p[1][1] - p[2][1]) + Abs(p[1][2] - p[2][2]) = 1}

\* what a call record keeps of the call before it
NoPrev == [op |-> "none", swapped |-> FALSE, had |-> FALSE, da |-> 0, db |-> 0]

\* no call yet
NoCall == [op |-> "none", a |-> Node(0, 0), b |-> Node(0, 0), ret |-> FALSE,
           had |-> FALSE, da |-> 0, db |-> 0, prev |-> NoPrev, url |-> <<>>]

\* the record of a call op(a, b) made on the maps E, D that returned ret; prev
\* is the call before it when that call was on the same two nodes (da and db
\* being the degrees of this call's a and b before that call)
CallRecord(op, E, D, a, b, ret, last) ==
  [op |-> op, a |-> a, b |-> b, ret |-> ret,
   had |-> MapHas(E, edgeKey(a, b)),
   da |-> DegGetOr(D, nodeKey(a.x, a.y), 0),
   db |-> DegGetOr(D, nodeKey(b.x, b.y), 0),
   prev |-> IF last.op # "none" /\ last.a = a /\ last.b = b
            THEN [op |-> last.op, swapped |-> FALSE, had |-> last.had,
                  da |-> last.da, db |-> last.db]
            ELSE IF last.op # "none" /\ last.a = b /\ last.b = a
            THEN [op |-> last.op, swapped |-> TRUE, had |-> last.had,
                  da |-> last.db, db |-> last.da]
            ELSE NoPrev,
   url |-> <<>>]

\* ------------------------------------------------------------------------
\* Actions
\* ------------------------------------------------------------------------

\* the script's start: the state before initialize() (lines 93-98, 268, 331-333)
Boot(ct, h, srch) ==
  /\ phase = "boot"
  /\ container = ct
  /\ canvas = [width |-> 300, height |-> 150]
  /\ zoom = INITIAL_ZOOM
  /\ viewport = [cx |-> Null, cy |-> Null, w |-> Null, h |-> Null]
  /\ edges = <<>>
  /\ degree = <<>>
  /\ saveTimer = 0
  /\ timers = {}
  /\ isPointerDown = FALSE
  /\ pointerStart = NoPointer
  /\ isDragging = FALSE
  /\ hash = h
  /\ search = srch
  /\ lastCall = NoCall
  /\ events = 0

\* initialize(): the state st1 = [edges, degree, zoom, viewport] it ends with
InitializeSets(cv, st1) ==
  /\ canvas' = cv
  /\ zoom' = st1.zoom
  /\ viewport' = st1.viewport
  /\ edges' = st1.edges
  /\ degree' = st1.degree
  /\ hash' = saveStateToURL(st1.edges, st1.viewport, st1.zoom, hash)

\* initialize(): after tryRestoreFromURL() returned r from the state st0
InitializeRestored(cv, st0, r) ==
  InitializeSets(cv,
    IF r.restored THEN r.st
    ELSE [st0 EXCEPT
            !.viewport.cx = ClampCenter(st0.viewport.w, fullWidth, st0.viewport.cx),
            !.viewport.cy = ClampCenter(st0.viewport.h, fullHeight, st0.viewport.cy)])

\* initialize(): after resizeCanvas() returned r0
InitializeSized(r0, w, h) ==
  LET from(st0) == InitializeRestored(r0.canvas, st0,
                                      tryRestoreFromURL(hash, search, st0, r0.canvas))
  IN  from([edges |-> edges, degree |-> degree, zoom |-> zoom,
            viewport |-> [cx |-> w \div 2, cy |-> h \div 2, w |-> w, h |-> h]])

\* initialize()
Initialize ==
  /\ phase = "boot"
  /\ InitializeSized(resizeCanvas(container, viewport, zoom),
                     Extent(container.width, zoom), Extent(container.height, zoom))
  /\ phase' = "ready"
  /\ lastCall' = NoCall
  /\ UNCHANGED <<container, timerVars, ptrVars, search, events, codec>>

\* the saveTimer callback: a pending timeout expires
SaveTimerFire ==
  /\ phase = "ready"
  /\ \E t \in timers :
       /\ timers' = timers \ {t}
       /\ saveTimer' = 0
       /\ hash' = saveStateToURL(edges, viewport, zoom, hash)
  /\ lastCall' = NoCall
  /\ UNCHANGED <<phase, viewVars, graphVars, ptrVars, search, events, codec>>

\* the timer variables after a handler that called scheduleSaveState(delay), or not
Scheduled(called, delay) ==
  LET set(r) == saveTimer' = r.saveTimer /\ timers' = r.timers
  IN  IF called THEN set(scheduleSaveState(saveTimer, timers, delay))
      ELSE UNCHANGED timerVars

\* the variables after the call op(a, b) returned r
GraphSets(op, a, b, r) ==
  /\ edges' = r.edges
  /\ degree' = r.degree
  /\ Scheduled(r.save, 500)
  /\ lastCall' = CallRecord(op, edges, degree, a, b, r.ret, lastCall)

\* a call addEdge(a, b)
AddEdgeCall(a, b) ==
  /\ phase = "ready"
  /\ Len(edges) < MaxEdges
  /\ GraphSets("addEdge", a, b, AddEdge(edges, degree, a, b))
  /\ UNCHANGED <<phase, viewVars, ptrVars, urlVars, events, codec>>

\* a call removeEdge(a, b)
RemoveEdgeCall(a, b) ==
  /\ phase = "ready"
  /\ GraphSets("removeEdge", a, b, RemoveEdge(edges, degree, a, b))
  /\ UNCHANGED <<phase, viewVars, ptrVars, urlVars, events, codec>>

AddEdgeAny == \E p \in ApiPairs : AddEdgeCall(Node(p[1][1], p[1][2]), Node(p[2][1], p[2][2]))

RemoveEdgeAny == \E p \in ApiPairs : RemoveEdgeCall(Node(p[1][1], p[1][2]), Node(p[2][1], p[2][2]))

\* the resize listener, the container now being of size ct
Resize(ct) ==
  /\ phase = "ready"
  /\ events < MaxEvents
  /\ container' = ct
  /\ canvas' = [width |-> ct.width, height |-> ct.height]
  /\ LET sized(w, h) ==
           viewport' = [cx |-> ClampCenter(w, fullWidth,
                                           IF viewport.cx = 0 THEN w \div 2 ELSE viewport.cx),
                        cy |-> ClampCenter(h, fullHeight,
                                           IF viewport.cy = 0 THEN h \div 2 ELSE viewport.cy),
                        w  |-> w,
                        h  |-> h]
     IN  sized(Extent(ct.width, zoom), Extent(ct.height, zoom))
  /\ events' = events + 1
  /\ lastCall' = NoCall
  /\ UNCHANGED <<phase, zoom, graphVars, timerVars, ptrVars, urlVars, codec>>

\* Math.max(10, 0.06 * Math.min(viewport.w, viewport.h))
KeyStep(vp) == Max(Fx(10), (6 * Min(vp.w, vp.h)) \div 100)

\* Math.min(8, zoom * 1.2)
ZoomIn(z) == Min(Fx(8), (z * 12) \div 10)

\* Math.max(0.6, zoom / 1.2)
ZoomOut(z) == Max(60, (z * 10) \div 12)

\* the viewport after the keydown listener's zoom branch set zoom to z
Rezoomed(vp, cv, z) ==
  [vp EXCEPT !.w = Extent(cv.width, z), !.h = Extent(cv.height, z)]

\* the keydown listener
KeyDown(key) ==
  /\ phase = "ready"
  /\ events < MaxEvents
  /\ zoom' = IF key \in {"+", "="} THEN ZoomIn(zoom)
             ELSE IF key \in {"-", "_"} THEN ZoomOut(zoom)
             ELSE zoom
  /\ viewport' =
       IF key = "ArrowLeft"
       THEN [viewport EXCEPT !.cx = Max(viewport.w \div 2, viewport.cx - KeyStep(viewport))]
       ELSE IF key = "ArrowRight"
       THEN [viewport EXCEPT !.cx = Min(Fx(fullWidth) - (viewport.w \div 2),
                                        viewport.cx + KeyStep(viewport))]
       ELSE IF key = "ArrowUp"
       THEN [viewport EXCEPT !.cy = Max(viewport.h \div 2, viewport.cy - KeyStep(viewport))]
       ELSE IF key = "ArrowDown"
       THEN [viewport EXCEPT !.cy = Min(Fx(fullHeight) - (viewport.h \div 2),
                                        viewport.cy + KeyStep(viewport))]
       ELSE IF key \in {"+", "="} THEN Rezoomed(viewport, canvas, ZoomIn(zoom))
       ELSE IF key \in {"-", "_"} THEN Rezoomed(viewport, canvas, ZoomOut(zoom))
       ELSE viewport
  /\ Scheduled(key \in {"ArrowLeft", "ArrowRight", "ArrowUp", "ArrowDown",
                        "+", "=", "-", "_"}, 500)
  /\ events' = events + 1
  /\ lastCall' = NoCall
  /\ UNCHANGED <<phase, container, canvas, graphVars, ptrVars, urlVars, codec>>

\* the pointerdown listener
PointerDown(x, y) ==
  /\ phase = "ready"
  /\ events < MaxEvents
  /\ isPointerDown' = TRUE
  /\ isDragging' = FALSE
  /\ pointerStart' = [null |-> FALSE, x |-> x, y |-> y, cx |-> viewport.cx, cy |-> viewport.cy]
  /\ events' = events + 1
  /\ lastCall' = NoCall
  /\ UNCHANGED <<phase, viewVars, graphVars, timerVars, urlVars, codec>>

\* a threshold that a displacement of DRAG_THRESHOLD itself passes
BeyondThresholdInclusive(dx, dy) == dx * dx + dy * dy >= DRAG_THRESHOLD * DRAG_THRESHOLD

\* Math.hypot(dx, dy) > DRAG_THRESHOLD, for whole dx, dy
BeyondThreshold(dx, dy) == dx * dx + dy * dy > DRAG_THRESHOLD * DRAG_THRESHOLD

\* a pointermove listener that classifies anew at every event
PointerMoveNotSticky(x, y) ==
  /\ phase = "ready"
  /\ events < MaxEvents
  /\ IF ~isPointerDown \/ pointerStart.null
     THEN UNCHANGED <<viewport, isDragging, timerVars>>
     ELSE /\ isDragging' = BeyondThreshold(x - pointerStart.x, y - pointerStart.y)
          /\ UNCHANGED <<viewport, timerVars>>
  /\ events' = events + 1
  /\ lastCall' = NoCall
  /\ UNCHANGED <<phase, container, canvas, zoom, graphVars, isPointerDown, pointerStart,
                 urlVars, codec>>

\* the pointermove listener
PointerMove(x, y) ==
  /\ phase = "ready"
  /\ events < MaxEvents
  /\ IF ~isPointerDown \/ pointerStart.null
     THEN UNCHANGED <<viewport, isDragging, timerVars>>
     ELSE LET moved(dx, dy) ==
                /\ isDragging' = (isDragging \/ BeyondThreshold(dx, dy))
                /\ IF isDragging \/ BeyondThreshold(dx, dy)
                   THEN /\ viewport' =
                             [viewport EXCEPT
                                !.cx = ClampCenter(viewport.w, fullWidth,
                                         pointerStart.cx
                                           + (((0 - dx) * viewport.w) \div canvas.width)),
                                !.cy = ClampCenter(viewport.h, fullHeight,
                                         pointerStart.cy
                                           + (((0 - dy) * viewport.h) \div canvas.height))]
                        /\ Scheduled(TRUE, 300)
                   ELSE UNCHANGED <<viewport, timerVars>>
          IN  moved(x - pointerStart.x, y - pointerStart.y)
  /\ events' = events + 1
  /\ lastCall' = NoCall
  /\ UNCHANGED <<phase, container, canvas, zoom, graphVars, isPointerDown, pointerStart,
                 urlVars, codec>>

\* Math.sqrt(dist) * (canvas.width / viewport.w) <= EDGE_HIT_RADIUS, both
\* sides multiplied by viewport.w
WithinHitRadius(dist, vp, cv) == Sqrt(dist) * cv.width <= EDGE_HIT_RADIUS * vp.w

\* a tap that calls addEdge whether the edge is present or not
TapAddOnly(nearest) ==
  IF nearest.found /\ WithinHitRadius(nearest.dist, viewport, canvas)
  THEN GraphSets("addEdge", nearest.a, nearest.b,
                 AddEdge(edges, degree, nearest.a, nearest.b))
  ELSE /\ UNCHANGED <<graphVars, timerVars>>
       /\ lastCall' = NoCall

\* pointerup on a tap: the edge toggled at the nearest edge found, if near enough
TapToggle(nearest) ==
  IF nearest.found /\ WithinHitRadius(nearest.dist, viewport, canvas)
  THEN IF MapHas(edges, edgeKey(nearest.a, nearest.b))
       THEN GraphSets("removeEdge", nearest.a, nearest.b,
                      RemoveEdge(edges, degree, nearest.a, nearest.b))
       ELSE GraphSets("addEdge", nearest.a, nearest.b,
                      AddEdge(edges, degree, nearest.a, nearest.b))
  ELSE /\ UNCHANGED <<graphVars, timerVars>>
       /\ lastCall' = NoCall

\* pointerup on a tap at the world point full
TapAt(full) == TapToggle(findNearestEdgeToFull(full.x, full.y))

\* the pointerup listener (the canvas's bounding rectangle starts at 0, 0)
PointerUp(x, y) ==
  /\ phase = "ready"
  /\ events < MaxEvents
  /\ IF ~isPointerDown
     THEN /\ UNCHANGED <<graphVars, timerVars, ptrVars>>
          /\ lastCall' = NoCall
     ELSE /\ isPointerDown' = FALSE
          /\ pointerStart' = NoPointer
          /\ isDragging' = FALSE
          /\ IF ~isDragging /\ ~BeyondThreshold(x - pointerStart.x, y - pointerStart.y)
             THEN TapAt(screenToFull(viewport, canvas, x, y))
             ELSE /\ UNCHANGED <<graphVars, timerVars>>
                  /\ lastCall' = NoCall
  /\ events' = events + 1
  /\ UNCHANGED <<phase, viewVars, urlVars, codec>>

\* ------------------------------------------------------------------------
\* The graph driven through addEdge/removeEdge from the empty state
\* ------------------------------------------------------------------------

\* The script calls addEdge and removeEdge from the pointerup listener's tap
\* branch only; here they are called on any adjacent pair of ApiNodes, present
\* or absent, so that their rejections are exercised as well.

InitGraph == Boot([width |-> 800, height |-> 600], <<>>, <<>>) /\ codec = NoCodec

NextGraph == Initialize \/ AddEdgeAny \/ RemoveEdgeAny \/ SaveTimerFire

SpecGraph == InitGraph /\ [][NextGraph]_vars

\* ------------------------------------------------------------------------
\* Properties of the graph
\* ------------------------------------------------------------------------

\* the node keys an edge key joins
KeyEnds(k) == {Split(k, 124)[1], Split(k, 124)[2]}

\* the number of edges of the edge set incident to the node with key nk
IncidentCount(E, nk) == Cardinality({i \in 1..Len(E) : nk \in KeyEnds(E[i])})

\* the node keys that the edge set or the degree map mention, and the lattice
\* nodes the calls are made on
KnownNodeKeys ==
  (DOMAIN degree) \cup UNION {KeyEnds(edges[i]) : i \in 1..Len(edges)}
    \cup {nodeKey(Node(n[1], n[2]).x, Node(n[1], n[2]).y) : n \in ApiNodes}

\* C1: starting from the empty graph, after any sequence of addEdge and
\* removeEdge calls on in-bounds lattice-adjacent pairs, accepted or rejected,
\* every node's degree (absent counts as 0) is the number of edges of the edge
\* set incident to it, and is at most 2.
C1_DegreeIsIncidentCount ==
  \A nk \in KnownNodeKeys :
    /\ DegGetOr(degree, nk, 0) = IncidentCount(edges, nk)
    /\ DegGetOr(degree, nk, 0) <= 2

\* a removeEdge has just taken an edge away from a node that had two
C1_Witness ==
  /\ lastCall.op = "removeEdge" /\ lastCall.ret
  /\ lastCall.da = 2
  /\ Len(edges) = 1

\* C2: addEdge(a, b) called while the edge {a, b} is present (in either order
\* of the endpoints) or while an endpoint has degree 2 returns false and leaves
\* the edge set, the degree map and the pending save timer as they were; so a
\* repeated addEdge(a, b) changes nothing, and a third edge at a node of
\* degree 2 is rejected.
C2_RejectedAddIsNoOp ==
  [][(/\ lastCall'.op = "addEdge"
      /\ \/ MapHas(edges, edgeKey(lastCall'.a, lastCall'.b))
         \/ MapHas(edges, edgeKey(lastCall'.b, lastCall'.a))
         \/ DegGetOr(degree, nodeKey(lastCall'.a.x, lastCall'.a.y), 0) >= 2
         \/ DegGetOr(degree, nodeKey(lastCall'.b.x, lastCall'.b.y), 0) >= 2)
     => (/\ ~lastCall'.ret
         /\ UNCHANGED <<edges, degree, saveTimer, timers>>)]_vars

\* addEdge(b, a) was rejected right after addEdge(a, b), with a save pending
C2_Witness ==
  /\ lastCall.op = "addEdge" /\ ~lastCall.ret /\ lastCall.had
  /\ lastCall.prev.op = "addEdge" /\ lastCall.prev.swapped
  /\ saveTimer # 0

\* the state is the one after addEdge(a, b) then removeEdge(a, b)
AddThenRemove ==
  /\ lastCall.op = "removeEdge"
  /\ lastCall.prev.op = "addEdge" /\ ~lastCall.prev.swapped

\* degree(a) and degree(b) are what they were before the addEdge
DegreesRestored ==
  /\ DegGetOr(degree, nodeKey(lastCall.a.x, lastCall.a.y), 0) = lastCall.prev.da
  /\ DegGetOr(degree, nodeKey(lastCall.b.x, lastCall.b.y), 0) = lastCall.prev.db

\* C3 as stated: in every reachable graph state, addEdge(a, b) then
\* removeEdge(a, b) leaves degree(a) and degree(b) as before the addEdge.
C3_AsStated == AddThenRemove => DegreesRestored

\* C3: addEdge(a, b) then removeEdge(a, b), made while the edge {a, b} is not
\* in the edge set, leaves degree(a) and degree(b) as before the addEdge,
\* whether the addEdge was accepted or rejected for a degree of 2.
C3_AddRemoveRestoresDegreesWhenAbsent ==
  (AddThenRemove /\ ~lastCall.prev.had) => DegreesRestored

\* an accepted addEdge of an absent edge at a node of degree 1, then its removeEdge
C3_Witness ==
  /\ AddThenRemove /\ ~lastCall.prev.had
  /\ lastCall.ret
  /\ lastCall.prev.da = 1

\* ------------------------------------------------------------------------
\* The codec on its own: encodeStateToString, then decodeStateFromString
\* ------------------------------------------------------------------------

\* the longest edge list encoded
CodecMaxEdges == 2

\* 4-integer tuples: adjacent nodes, two-digit nodes, a negative and a far node
CodecTuples ==
  {<<0, 0, 1, 0>>, <<10, 0, 9, 0>>, <<0 - 1, 5, 127, 177>>}

\* lists of at most n of them, repeats included
CodecLists(n) == UNION {[1..k -> CodecTuples] : k \in 0..n}

\* viewport fields: zero, fractions, a negative number, the zoom's bounds
CodecCx == {0, 12550, 0 - 325}

CodecCy == {9375, 100000}

CodecZoom == {INITIAL_ZOOM, 60}

\* the state object { edges: L, viewport: { cx, cy, zoom } }
CodecState(L, cx, cy, z) ==
  JObj(<< <<KeyEdges, JArr([i \in 1..Len(L) |->
                              JArr([j \in 1..4 |-> JNum(Fx(L[i][j]))])])>>,
          <<KeyViewport, JObj(<< <<KeyCx, JNum(cx)>>,
                                 <<KeyCy, JNum(cy)>>,
                                 <<KeyZoom, JNum(z)>> >>)>> >>)

CodecStates ==
  {CodecState(L, cx, cy, z) :
     L \in CodecLists(CodecMaxEdges), cx \in CodecCx, cy \in CodecCy, z \in CodecZoom}

InitCodec ==
  /\ Boot([width |-> 800, height |-> 600], <<>>, <<>>)
  /\ \E st \in CodecStates :
       codec = [stage |-> "input", kind |-> "state", input |-> st, token |-> <<>>,
                output |-> JUndefined]

\* token = encodeStateToString(stateObj)
EncodeCall ==
  /\ codec.stage = "input"
  /\ codec' = [codec EXCEPT !.stage = "encoded",
                              !.token = encodeStateToString(codec.input)]
  /\ UNCHANGED <<phase, viewVars, graphVars, timerVars, ptrVars, urlVars, lastCall, events>>

\* decodeStateFromString(token)
DecodeCall ==
  /\ codec.stage = "encoded"
  /\ codec' = [codec EXCEPT !.stage = "decoded",
                              !.output = decodeStateFromString(codec.token)]
  /\ UNCHANGED <<phase, viewVars, graphVars, timerVars, ptrVars, urlVars, lastCall, events>>

NextCodec == EncodeCall \/ DecodeCall

SpecCodec == InitCodec /\ [][NextCodec]_vars

\* the characters of URL-safe base64 without padding: A-Z, a-z, 0-9, '-', '_'
IsUrlSafeChar(c) ==
  \/ c \in 65..90
  \/ c \in 97..122
  \/ c \in 48..57
  \/ c = 45
  \/ c = 95

\* C5: decode(encode(s)) = s for every state s = {edges: list of 4-integer
\* tuples, viewport: {cx, cy, zoom}} with finite numeric fields, and encode(s)
\* holds URL-safe base64 characters only (no '+', no '/', no '=').
C5_CodecRoundTrip ==
  /\ codec.stage \in {"encoded", "decoded"} =>
       /\ Len(codec.token) > 0
       /\ \A i \in 1..Len(codec.token) : IsUrlSafeChar(codec.token[i])
  /\ codec.stage = "decoded" => codec.output = codec.input

\* a state with two edge tuples and a fractional, negative cx was encoded to a
\* token whose padding was taken off, and decoded
C5_Witness ==
  /\ codec.stage = "decoded"
  /\ Len(Get(codec.input, KeyEdges).v) = 2
  /\ Len(At(Get(codec.input, KeyEdges), 0).v) = 4
  /\ Get(Get(codec.input, KeyViewport), KeyCx) = JNum(0 - 325)
  /\ Len(codec.token) % 4 # 0

\* ------------------------------------------------------------------------
\* Page loads: initialize() on an address, then importState calls
\* ------------------------------------------------------------------------

\* the longest edge list in an address
LoadMaxEdges == 2

\* tuples of adjacent in-bounds nodes: an edge in both orders of its endpoints,
\* an edge of two-digit nodes, a vertical edge
LoadTuples == {<<0, 0, 1, 0>>, <<1, 0, 0, 0>>, <<9, 0, 10, 0>>, <<0, 0, 0, 1>>}

LoadLists(n) == UNION {[1..k -> LoadTuples] : k \in 0..n}

\* viewports of an address: inside the world, and left of it at another zoom
LoadViewports == {[cx |-> 12550, cy |-> 9375, zoom |-> INITIAL_ZOOM],
                  [cx |-> 0 - 5000, cy |-> 9375, zoom |-> 200]}

\* JSON values that are no state: neither an edges array nor a viewport object
ShapeValues ==
  {JNum(500), JNum(0), JNull, JBool(TRUE), JStr(<<120>>), JArr(<<>>), JArr(<<JNum(100)>>),
   JObj(<< <<(<<97>>), JNum(100)>> >>),
   JObj(<< <<KeyEdges, JNum(500)>>, <<KeyViewport, JNum(300)>> >>)}

\* texts that are no JSON: "{", "abc", "[1,", "" and "01"
BadJsonTexts == {<<123>>, <<97, 98, 99>>, <<91, 49, 44>>, <<>>, <<48, 49>>}

\* tokens that are no base64: "!!!!", "a", "ey*J" and "e30=x"
BadCharTokens == {<<33, 33, 33, 33>>, <<97>>, <<101, 121, 42, 74>>,
                  <<101, 51, 48, 61, 120>>}

\* what an address carries: the kind of its token, the value it was made
\* from, and the token
LoadTokens ==
  {[kind |-> "state", input |-> CodecState(L, v.cx, v.cy, v.zoom),
    token |-> encodeStateToString(CodecState(L, v.cx, v.cy, v.zoom))] :
      L \in LoadLists(LoadMaxEdges), v \in LoadViewports}
  \cup {[kind |-> "shape", input |-> x, token |-> encodeStateToString(x)] : x \in ShapeValues}
  \cup {[kind |-> "badjson", input |-> JNull, token |-> UrlSafe(Btoa(t))] : t \in BadJsonTexts}
  \cup {[kind |-> "badchars", input |-> JNull, token |-> t] : t \in BadCharTokens}

\* "?state="
SearchPrefix == <<63>> \o ParamState \o <<61>>

\* the token of one horizontal edge at the default zoom
TokenA == encodeStateToString(CodecState(<< <<0, 0, 1, 0>> >>, 12550, 9375, INITIAL_ZOOM))

\* the token of one vertical edge at zoom 2
TokenB == encodeStateToString(CodecState(<< <<0, 0, 0, 1>> >>, 0 - 5000, 9375, 200))

\* addresses with a fragment and a query: two state tokens; a fragment token
\* that is no base64 ("!!!!") or is empty, with a state token in the query;
\* the fragment "#x" with a state token in the query; the query "?x=1" alone
BothUrls ==
  {[hash |-> HashPrefix \o TokenA, search |-> SearchPrefix \o TokenB],
   [hash |-> HashPrefix \o <<33, 33, 33, 33>>, search |-> SearchPrefix \o TokenB],
   [hash |-> HashPrefix, search |-> SearchPrefix \o TokenB],
   [hash |-> <<35, 120>>, search |-> SearchPrefix \o TokenB],
   [hash |-> <<>>, search |-> <<63, 120, 61, 49>>]}

\* the token in the fragment, or in the query, or in both, or no token at all
InitLoad ==
  \/ \E t \in LoadTokens :
       /\ \/ Boot([width |-> 800, height |-> 600], HashPrefix \o t.token, <<>>)
          \/ /\ IF t.kind = "state" THEN Len(Get(t.input, KeyEdges).v) = 1 ELSE TRUE
             /\ Boot([width |-> 800, height |-> 600], <<>>, SearchPrefix \o t.token)
       /\ codec = [stage |-> "encoded", kind |-> t.kind, input |-> t.input,
                   token |-> t.token, output |-> JUndefined]
  \/ /\ Boot([width |-> 800, height |-> 600], <<>>, <<>>)
     /\ codec = NoCodec
  \/ \E u \in BothUrls :
       /\ Boot([width |-> 800, height |-> 600], u.hash, u.search)
       /\ codec = NoCodec

\* the objects passed to importState
ImportObjs ==
  {JNull,
   CodecState(<< <<0, 0, 1, 0>>, <<1, 0, 0, 0>> >>, 12550, 9375, INITIAL_ZOOM),
   CodecState(<< <<9, 0, 10, 0>> >>, 200000, 0 - 100, 60)}

\* the variables after applyState left the state st
ApplySets(st) ==
  /\ edges' = st.edges
  /\ degree' = st.degree
  /\ zoom' = st.zoom
  /\ viewport' = st.viewport

\* window.slither.importState(obj)
ImportStateCall(obj) ==
  /\ phase = "ready"
  /\ events < MaxEvents
  /\ ApplySets(applyState(obj, [edges |-> edges, degree |-> degree, zoom |-> zoom,
                                viewport |-> viewport], canvas))
  /\ Scheduled(TRUE, 500)
  /\ events' = events + 1
  /\ lastCall' = NoCall
  /\ UNCHANGED <<phase, container, canvas, ptrVars, urlVars, codec>>

ImportState == \E obj \in ImportObjs : ImportStateCall(obj)

\* a call of buildFullBookmarkURL(), as the bookmark button's click listener makes
BuildBookmark ==
  /\ phase = "ready"
  /\ lastCall' = [NoCall EXCEPT !.op = "buildFullBookmarkURL",
                                !.url = buildFullBookmarkURL(edges, viewport, zoom, search)]
  /\ UNCHANGED <<phase, viewVars, graphVars, timerVars, ptrVars, urlVars, events, codec>>

NextLoad == Initialize \/ DecodeCall \/ ImportState \/ SaveTimerFire

SpecLoad == InitLoad /\ [][NextLoad]_vars

\* the bookmark button on pages opened with a fragment and a query
InitBookmark ==
  \E u \in BothUrls :
    /\ Boot([width |-> 800, height |-> 600], u.hash, u.search)
    /\ codec = NoCodec

NextBookmark == Initialize \/ ImportState \/ SaveTimerFire \/ BuildBookmark

SpecBookmark == InitBookmark /\ [][NextBookmark]_vars

\* ------------------------------------------------------------------------
\* Properties of page loads
\* ------------------------------------------------------------------------

\* C4 as stated: at all times, also after applyState loaded an edge list (on
\* page load or by importState) of 4-component tuples, with repeats and with
\* either order of the endpoints, every node's degree is the number of edges
\* of the edge set incident to it.
C4_AsStated ==
  \A nk \in KnownNodeKeys : DegGetOr(degree, nk, 0) = IncidentCount(edges, nk)

\* initialize() has run and importState was not called since
JustInitialized == phase = "ready" /\ events = 0

\* the state of a page opened on an address without a token
IsDefaultState ==
  /\ edges = <<>>
  /\ degree = <<>>
  /\ zoom = INITIAL_ZOOM
  /\ viewport.w = Extent(canvas.width, INITIAL_ZOOM)
  /\ viewport.h = Extent(canvas.height, INITIAL_ZOOM)
  /\ viewport.cx = ClampCenter(viewport.w, fullWidth, viewport.w \div 2)
  /\ viewport.cy = ClampCenter(viewport.h, fullHeight, viewport.h \div 2)

Oriented(t) ==
  IF StrLess(nodeKey(At(t, 0), At(t, 1)), nodeKey(At(t, 2), At(t, 3)))
  THEN t
  ELSE JArr(<<At(t, 2), At(t, 3), At(t, 0), At(t, 1)>>)

RECURSIVE FirstOccurrences(_, _)
\* the list without the elements that occur earlier in it, the first i kept
FirstOccurrences(list, i) ==
  IF i > Len(list) THEN <<>>
  ELSE (IF \E j \in 1..(i - 1) : list[j] = list[i] THEN <<>> ELSE <<list[i]>>)
       \o FirstOccurrences(list, i + 1)

\* the list L with every tuple oriented and later repeats of an edge dropped
Normalized(L) == FirstOccurrences([i \in 1..Len(L) |-> Oriented(L[i])], 1)

\* the edges list decoded from the token in the fragment
FragmentEdges == Get(decodeStateFromString(SubSeq(hash, 8, Len(hash))), KeyEdges)

\* initialize() has run on a fragment '#state=' + encode({edges: L, viewport: V})
LoadedFromFragment ==
  JustInitialized /\ codec.kind = "state" /\ search = <<>>

\* C7 as stated: initialization on the fragment '#state=' + encode({edges: L,
\* viewport: V}), L a list of tuples of adjacent in-bounds nodes, rewrites the
\* fragment to a token whose decoded edges list is L: same tuples, same order.
C7_AsStated ==
  LoadedFromFragment => FragmentEdges = Get(codec.input, KeyEdges)

\* C7: the rewritten fragment's decoded edges list is L with every tuple's
\* endpoints in the order of edgeKey (the endpoint whose key "x,y" is the
\* smaller string first) and with the later repeats of an edge left out, in
\* the order of first occurrence; it is L when L is already so.
C7_FragmentHoldsNormalizedList ==
  LoadedFromFragment => FragmentEdges = JArr(Normalized(Get(codec.input, KeyEdges).v))

\* a list of an edge and the same edge with its endpoints exchanged was
\* loaded and saved as one tuple
C7_Witness ==
  /\ LoadedFromFragment
  /\ Len(Get(codec.input, KeyEdges).v) = 2
  /\ Len(FragmentEdges.v) = 1
  /\ Len(edges) = 1

\* ------------------------------------------------------------------------
\* The page in use: initialize(), then input events and timer expiries
\* ------------------------------------------------------------------------

Init == \E ct \in ContainerSizes : Boot(ct, <<>>, <<>>) /\ codec = NoCodec

ResizeAny == \E ct \in ContainerSizes : Resize(ct)

KeyDownAny == \E key \in Keys : KeyDown(key)

PointerDownAny == \E p \in PointerPoints : PointerDown(p[1], p[2])

PointerMoveAny == \E p \in PointerPoints : PointerMove(p[1], p[2])

PointerUpAny == \E p \in PointerPoints : PointerUp(p[1], p[2])

Next ==
  \/ Initialize
  \/ ResizeAny
  \/ KeyDownAny
  \/ PointerDownAny
  \/ PointerMoveAny
  \/ PointerUpAny
  \/ ImportState
  \/ SaveTimerFire

Spec == Init /\ [][Next]_vars

\* ------------------------------------------------------------------------
\* The save timer: every caller of scheduleSaveState, and the timer's expiry
\* ------------------------------------------------------------------------

\* a zoom key and a pan key
SaveKeys == {"+", "ArrowRight"}

\* a point on an edge's midpoint and a point a drag away from it
SavePoints == {<<72, 58>>, <<300, 200>>}

InitSave == Boot([width |-> 800, height |-> 600], <<>>, <<>>) /\ codec = NoCodec

KeyDownSave == \E key \in SaveKeys : KeyDown(key)

PointerDownSave == \E p \in SavePoints : PointerDown(p[1], p[2])

PointerMoveSave == \E p \in SavePoints : PointerMove(p[1], p[2])

PointerUpSave == \E p \in SavePoints : PointerUp(p[1], p[2])

ImportStateSave == ImportStateCall(JNull)

NextSave ==
  \/ Initialize
  \/ KeyDownSave
  \/ PointerDownSave
  \/ PointerMoveSave
  \/ PointerUpSave
  \/ ImportStateSave
  \/ SaveTimerFire

\* the callback of saveTimer can run: ENABLED <<SaveTimerFire>>_vars
TimerPending == phase = "ready" /\ timers # {}

\* the browser runs the callback of a pending timeout once its delay is over:
\* WF_vars(SaveTimerFire), with its ENABLED written as TimerPending
TimerFairness == []<>(~TimerPending) \/ []<><<SaveTimerFire>>_vars

SpecSave == InitSave /\ [][NextSave]_vars /\ TimerFairness

\* ------------------------------------------------------------------------
\* The save timer, with window resizes among the events
\* ------------------------------------------------------------------------

NextPersist == NextSave \/ ResizeAny

SpecPersist == InitSave /\ [][NextPersist]_vars /\ TimerFairness

\* ------------------------------------------------------------------------
\* The hit tester on its own
\* ------------------------------------------------------------------------

\* quarter spacings from the first lattice node
HitSteps == 8

\* world x of a query: on nodes, between them, on the world's borders, the
\* least x that rounds to the column past the last, and 74.33
HitXs ==
  {Fx(BORDER) + k * 225 : k \in 0..HitSteps}
  \cup {0, 7433, Fx(fullWidth) - 450, Fx(fullWidth)}

HitYs ==
  {Fx(BORDER) + k * 225 : k \in 0..HitSteps}
  \cup {0, Fx(fullHeight) - 450, Fx(fullHeight)}

InitHit ==
  /\ Boot([width |-> 800, height |-> 600], <<>>, <<>>)
  /\ \E x \in HitXs, y \in HitYs :
       codec = [stage |-> "input", kind |-> "hit", input |-> <<x, y>>, token |-> <<>>,
                output |-> JUndefined]

\* best = findNearestEdgeToFull(fullX, fullY)
HitCall ==
  /\ codec.stage = "input"
  /\ codec.kind = "hit"
  /\ codec' = [codec EXCEPT !.stage = "found",
                              !.output = findNearestEdgeToFull(codec.input[1], codec.input[2])]
  /\ UNCHANGED <<phase, viewVars, graphVars, timerVars, ptrVars, urlVars, lastCall, events>>

NextHit == HitCall

SpecHit == InitHit /\ [][NextHit]_vars

\* ------------------------------------------------------------------------
\* importState with edge lists of any shape and viewports of any zoom
\* ------------------------------------------------------------------------

\* entries of an edge list: [0,0,1,0], [1,0,0,0], [2,0,3,0,7], ["a",0,1,0],
\* [0,0,1] and 5
TupleShapes ==
  {JArr(<<JNum(0), JNum(0), JNum(Fx(1)), JNum(0)>>),
   JArr(<<JNum(Fx(1)), JNum(0), JNum(0), JNum(0)>>),
   JArr(<<JNum(Fx(2)), JNum(0), JNum(Fx(3)), JNum(0), JNum(Fx(7))>>),
   JArr(<<JStr(<<97>>), JNum(0), JNum(Fx(1)), JNum(0)>>),
   JArr(<<JNum(0), JNum(0), JNum(Fx(1))>>),
   JNum(Fx(5))}

\* the longest edge list of an imported object
ShapeMaxEdges == 2

ShapeLists(n) == UNION {[1..k -> TupleShapes] : k \in 0..n}

\* zooms of an imported viewport: 0.1, 1 and 20
ShapeZooms == {10, 100, 2000}

\* objects { edges: L } and { edges: [], viewport: { cx, cy, zoom } }
ShapedObjs ==
  {JObj(<< <<KeyEdges, JArr(L)>> >>) : L \in ShapeLists(ShapeMaxEdges)}
  \cup {CodecState(<<>>, 12550, 9375, z) : z \in ShapeZooms}

ImportShaped == \E obj \in ShapedObjs : ImportStateCall(obj)

NextImport == Initialize \/ ImportShaped \/ KeyDownSave \/ SaveTimerFire

SpecImport == InitSave /\ [][NextImport]_vars

\* ------------------------------------------------------------------------
\* Pointer and keyboard input only, on a page opened without a state
\* ------------------------------------------------------------------------

\* the zoom keys and a pan key
InputKeys == {"+", "-", "ArrowRight"}

KeyDownInput == \E key \in InputKeys : KeyDown(key)

NextInput ==
  \/ Initialize
  \/ KeyDownInput
  \/ PointerDownAny
  \/ PointerMoveAny
  \/ PointerUpAny
  \/ SaveTimerFire

SpecInput == InitSave /\ [][NextInput]_vars

\* ------------------------------------------------------------------------
\* Properties of the page in use
\* ------------------------------------------------------------------------

\* saveTimer is the id of the one pending timeout, or null when none is pending
OneSaveTimer ==
  /\ Cardinality(timers) <= 1
  /\ saveTimer = 0 <=> timers = {}
  /\ \A t \in timers : t.id = saveTimer

\* a step that leaves another timeout pending (a scheduleSaveState call)
\* leaves that one alone: the one pending before is gone
Rescheduled == (timers' # timers /\ timers' # {}) => (Cardinality(timers') = 1)

\* after initialize(), the fragment is written (saveStateToURL runs) only by
\* the callback of the pending timeout, which leaves none pending
SavedByTimerOnly ==
  (phase = "ready" /\ hash' # hash) => (timers # {} /\ timers' = {} /\ saveTimer' = 0)

\* C8: at most one save timer is pending at any time: every scheduleSaveState
\* call cancels the pending one and starts another, so a burst of calls with
\* no expiry in between is followed by one run of saveStateToURL, by the
\* timer of the burst's last call, after which none is pending; a pending
\* timer does expire.
C8_OneSavePerBurst ==
  /\ []OneSaveTimer
  /\ [][Rescheduled /\ SavedByTimerOnly]_vars
  /\ (saveTimer # 0) ~> (saveTimer = 0)

\* a drag's scheduleSaveState(300) has replaced a key's scheduleSaveState(500)
C8_Witness ==
  /\ events >= 3
  /\ isDragging
  /\ timers = {[id |-> saveTimer, delay |-> 300]}
  /\ zoom # INITIAL_ZOOM

\* in the horizontal axis the viewport lies within the world, or is wider
\* than the world and centred on it
InWorldX ==
  IF viewport.w > Fx(fullWidth)
  THEN 2 * viewport.cx = Fx(fullWidth)
  ELSE /\ viewport.cx - (viewport.w \div 2) >= 0
       /\ viewport.cx + (viewport.w \div 2) <= Fx(fullWidth)

\* the same in the vertical axis
InWorldY ==
  IF viewport.h > Fx(fullHeight)
  THEN 2 * viewport.cy = Fx(fullHeight)
  ELSE /\ viewport.cy - (viewport.h \div 2) >= 0
       /\ viewport.cy + (viewport.h \div 2) <= Fx(fullHeight)

\* C9 as stated: in every state after initialization (after any drags, arrow
\* keys, zoom keys, resizes and loads), in each axis the viewport rectangle
\* [centre - extent/2, centre + extent/2] lies within [0, fullExtent], unless
\* the extent exceeds the world's, and then the viewport is centred on the world.
C9_AsStated == phase = "ready" => (InWorldX /\ InWorldY)

\* a zoom key has left the viewport's left edge outside the world
C9_Witness ==
  /\ phase = "ready"
  /\ zoom < INITIAL_ZOOM
  /\ edges = <<>>
  /\ viewport.w <= Fx(fullWidth)
  /\ viewport.cx - (viewport.w \div 2) < 0

\* the arrow keys
ArrowKeys == {"ArrowLeft", "ArrowRight", "ArrowUp", "ArrowDown"}

\* a step of the keydown listener on an arrow key
ArrowPan == \E key \in ArrowKeys : KeyDown(key)

\* a step of the pointermove listener that drags
DragPan == PointerMoveAny /\ isDragging'

\* cx is in [w/2, fullWidth - w/2] and cy in [h/2, fullHeight - h/2]
CenterInRange ==
  /\ viewport.cx >= viewport.w \div 2
  /\ viewport.cx <= Fx(fullWidth) - (viewport.w \div 2)
  /\ viewport.cy >= viewport.h \div 2
  /\ viewport.cy <= Fx(fullHeight) - (viewport.h \div 2)

\* C10 as stated: every pan (a dragging pointermove or an arrow key), made in
\* a reachable state where the viewport's extent does not exceed the world's,
\* leaves cx in [w/2, fullWidth - w/2] and cy in [h/2, fullHeight - h/2].
C10_AsStated ==
  [][((ArrowPan \/ DragPan)
        /\ viewport.w <= Fx(fullWidth) /\ viewport.h <= Fx(fullHeight))
     => CenterInRange']_vars

\* C11: buildFullBookmarkURL returns origin + path + query + '#state=' +
\* encode(current edges and viewport) and leaves the address, the history,
\* the edge set, the degree map, the viewport and the pending save timer as
\* they were.
C11_BookmarkURL ==
  [][lastCall'.op = "buildFullBookmarkURL"
     => (/\ lastCall'.url = LocationOrigin \o LocationPathname \o search \o HashPrefix
                              \o encodeStateToString(StateObj(edges, viewport, zoom))
         /\ UNCHANGED <<hash, search, edges, degree, zoom, viewport, canvas,
                        saveTimer, timers>>)]_vars

\* the URL was built on a page with a query, one edge and a save pending
C11_Witness ==
  /\ lastCall.op = "buildFullBookmarkURL"
  /\ Len(lastCall.url) > 0
  /\ search # <<>>
  /\ Len(edges) = 1
  /\ saveTimer # 0

\* the fragment begins with '#state='
HasStateFragment == Len(hash) >= 7 /\ SubSeq(hash, 1, 7) = HashPrefix

\* the state after the step is the one the token t stands for: its edges
\* (normalized) and its zoom when t encodes a state, the default state otherwise
LoadedAs(t) ==
  IF t.kind = "state"
  THEN /\ zoom' = Get(Get(t.input, KeyViewport), KeyZoom).v
       /\ [i \in 1..Len(edges') |-> EdgeTuple(edges'[i])]
            = Normalized(Get(t.input, KeyEdges).v)
  ELSE IsDefaultState'

\* C12: on load, a fragment beginning with '#state=' decides the restored
\* state, whatever the query holds; the query parameter state=<token> is
\* decoded only when the fragment does not begin with '#state='; when neither
\* gives a decodable token the page starts from the default state.
C12_FragmentBeforeQuery ==
  [][(phase = "boot" /\ phase' = "ready")
     => /\ \A t \in LoadTokens :
             /\ (HasStateFragment /\ SubSeq(hash, 8, Len(hash)) = t.token) => LoadedAs(t)
             /\ (~HasStateFragment /\ search = SearchPrefix \o t.token) => LoadedAs(t)
        /\ (~HasStateFragment /\ ~QueryParam(search, ParamState).has) => IsDefaultState']_vars

\* the page was loaded from a fragment token while the query held another
C12_Witness ==
  /\ JustInitialized
  /\ search = SearchPrefix \o TokenB
  /\ zoom = INITIAL_ZOOM
  /\ edges = <<edgeKey(Node(0, 0), Node(1, 0))>>

\* the controller is back in Idle, and the viewport's centre and the zoom are
\* as before the step
BackToIdle ==
  /\ ~isPointerDown' /\ ~isDragging' /\ pointerStart' = NoPointer
  /\ viewport'.cx = viewport.cx /\ viewport'.cy = viewport.cy
  /\ zoom' = zoom

\* the step toggled the edge that the hit test finds at the world point full:
\* removed when present, addEdge attempted otherwise, nothing when no edge is
\* within EDGE_HIT_RADIUS screen pixels
ToggledAt(full) ==
  LET hit(n) ==
        IF n.found /\ Sqrt(n.dist) * canvas.width <= EDGE_HIT_RADIUS * viewport.w
        THEN IF MapHas(edges, edgeKey(n.a, n.b))
             THEN /\ ~MapHas(edges', edgeKey(n.a, n.b))
                  /\ Len(edges') = Len(edges) - 1
             ELSE /\ lastCall'.op = "addEdge"
                  /\ lastCall'.a = n.a /\ lastCall'.b = n.b
                  /\ IF lastCall'.ret
                     THEN edges' = Append(edges, edgeKey(n.a, n.b))
                     ELSE edges' = edges
        ELSE UNCHANGED <<edges, degree>>
  IN  hit(findNearestEdgeToFull(full.x, full.y))

\* the release point (x, y) is within DRAG_THRESHOLD pixels of the gesture's origin
ReleasedNearOrigin(x, y) ==
  (x - pointerStart.x) * (x - pointerStart.x) + (y - pointerStart.y) * (y - pointerStart.y)
    <= DRAG_THRESHOLD * DRAG_THRESHOLD

\* C13 as stated: every pointerup that ends a gesture in PointerDown(dragging
\* = false) is a tap: the hit test runs at the release point and toggles the
\* nearest edge if it is within the 10-pixel threshold; the controller returns
\* to Idle, the viewport's centre and the zoom unchanged.
C13_AsStated ==
  [][\A p \in PointerPoints :
       (PointerUp(p[1], p[2]) /\ isPointerDown /\ ~isDragging)
         => (ToggledAt(screenToFull(viewport, canvas, p[1], p[2])) /\ BackToIdle)]_vars

\* C13: a pointerup that ends a gesture in PointerDown(dragging = false) is
\* a tap when the release point is within 6 pixels of the gesture's origin:
\* the hit test runs at the release point and toggles the nearest edge if it
\* is within the 10-pixel threshold.  Released farther away (no pointermove
\* having come in between), it toggles nothing.  Either way the controller
\* returns to Idle, the viewport's centre and the zoom unchanged.
C13_TapOnReleaseNearOrigin ==
  [][\A p \in PointerPoints :
       (PointerUp(p[1], p[2]) /\ isPointerDown /\ ~isDragging)
         => /\ IF ReleasedNearOrigin(p[1], p[2])
               THEN ToggledAt(screenToFull(viewport, canvas, p[1], p[2]))
               ELSE UNCHANGED <<edges, degree>>
            /\ BackToIdle]_vars

\* a second tap has removed the edge that a first tap added
C13_Witness ==
  /\ lastCall.op = "removeEdge" /\ lastCall.ret
  /\ ~isPointerDown
  /\ edges = <<>>
  /\ events = 4

\* the squared distance, in screen pixels, of (x, y) from the gesture's origin
Displacement2(x, y) ==
  (x - pointerStart.x) * (x - pointerStart.x) + (y - pointerStart.y) * (y - pointerStart.y)

\* a pointermove at p within a gesture not yet classified as a drag
MoveInTapCandidate(p) == PointerMove(p[1], p[2]) /\ isPointerDown /\ ~isDragging

\* C14 as stated: within a gesture, a displacement from the origin strictly
\* below the drag threshold (6 pixels) keeps the gesture a tap candidate and
\* does not move the viewport; a displacement at or above it makes it a pan.
C14_AsStated ==
  [][\A p \in PointerPoints :
       MoveInTapCandidate(p)
         => /\ Displacement2(p[1], p[2]) < 36 => (~isDragging' /\ viewport' = viewport)
            /\ Displacement2(p[1], p[2]) >= 36 => isDragging']_vars

\* C14: within a gesture, a displacement from the origin of at most the drag
\* threshold (6 pixels, 6 included) keeps the gesture a tap candidate and does
\* not move the viewport; a displacement strictly above it makes it a pan.
C14_ThresholdIsInclusiveForTap ==
  [][\A p \in PointerPoints :
       MoveInTapCandidate(p)
         => /\ Displacement2(p[1], p[2]) <= 36 => (~isDragging' /\ viewport' = viewport)
            /\ Displacement2(p[1], p[2]) > 36 => isDragging']_vars

\* a pointermove beyond the threshold has made the gesture a pan and moved
\* the viewport
C14_Witness ==
  /\ isPointerDown /\ isDragging
  /\ viewport.cx > pointerStart.cx
  /\ events = 2

\* C15 as stated: once a gesture is a drag it stays a drag until its
\* pointerup, and the pointerup that ends a drag performs no tap action.
C15_AsStated ==
  [][/\ (isDragging /\ ~PointerUpAny) => isDragging'
     /\ (isDragging /\ isPointerDown) => UNCHANGED <<edges, degree>>]_vars

\* C15: once a gesture is a drag it stays a drag, even when the pointer
\* returns to within the threshold of the origin, until its pointerup or
\* until another pointerdown (which starts a gesture anew, not a drag); no
\* step of a drag changes the edge set or the degree map, its pointerup
\* included, and the pointerup returns the controller to Idle.
C15_DragIsSticky ==
  [][/\ (isDragging /\ ~PointerUpAny /\ ~PointerDownAny) => isDragging'
     /\ (isDragging /\ isPointerDown) => UNCHANGED <<edges, degree>>
     /\ (isDragging /\ PointerUpAny)
          => (~isPointerDown' /\ ~isDragging' /\ pointerStart' = NoPointer)]_vars

\* a drag went out and came back to the origin, the viewport with it, and ended
C15_Witness ==
  /\ events = 4
  /\ ~isPointerDown /\ ~isDragging
  /\ saveTimer # 0 /\ timers = {[id |-> saveTimer, delay |-> 300]}
  /\ zoom = INITIAL_ZOOM
  /\ viewport.cx = Extent(canvas.width, zoom) \div 2
  /\ edges = <<>>

\* the fragment holds the token of the current edge set and viewport
FragmentOf(E, vp, z) == HashPrefix \o encodeStateToString(StateObj(E, vp, z))

FragmentIsCurrent == hash = FragmentOf(edges, viewport, zoom)

\* the step changes what the token holds: the edge set, the centre or the zoom
PersistedStateChanges ==
  \/ edges' # edges
  \/ viewport'.cx # viewport.cx
  \/ viewport'.cy # viewport.cy
  \/ zoom' # zoom

\* C16 as stated: after any state-changing operations (edge add or remove,
\* drag, arrow key, zoom key, window resize, importState), once no save timer
\* is pending the fragment holds the token of the current edge set and
\* viewport.
C16_AsStated == (phase = "ready" /\ timers = {}) => FragmentIsCurrent

\* C16: every step that changes the edge set, the centre or the zoom, except
\* a window resize, leaves a save timer pending; a pending timer expires; its
\* expiry writes into the fragment the token of the state at that time, and
\* leaves no timer pending; so with no further input the fragment ends up
\* current, unless a resize moved the centre after the last save was scheduled.
C16_SavedUnlessResized ==
  /\ [][(phase = "ready" /\ PersistedStateChanges /\ ~ResizeAny) => timers' # {}]_vars
  /\ [][(phase = "ready" /\ timers # {} /\ timers' = {})
           => /\ hash' = FragmentOf(edges', viewport', zoom')
              /\ UNCHANGED <<edges, degree, zoom, viewport>>]_vars
  /\ [][(phase = "ready" /\ FragmentIsCurrent /\ timers' = {} /\ ~ResizeAny)
           => hash' = FragmentOf(edges', viewport', zoom')]_vars
  /\ (timers # {}) ~> (timers = {} /\ FragmentIsCurrent)

\* a zoom and a drag were saved by the expiry of the drag's timer
C16_Witness ==
  /\ phase = "ready" /\ timers = {}
  /\ events >= 3
  /\ zoom > INITIAL_ZOOM
  /\ isDragging
  /\ viewport.cx # pointerStart.cx
  /\ FragmentIsCurrent

\* a tuple of exactly 4 numeric components
WellFormedTuple(e) ==
  IsArray(e) /\ Len(e.v) = 4 /\ \A j \in 1..4 : e.v[j].t = "num"

\* the key of the edge a tuple names, and the keys of its two nodes
TupleKey(e) ==
  edgeKey([x |-> At(e, 0), y |-> At(e, 1)], [x |-> At(e, 2), y |-> At(e, 3)])

TupleNodes(e) == {nodeKey(At(e, 0), At(e, 1)), nodeKey(At(e, 2), At(e, 3))}

\* the edge list of an imported object
EdgeList(obj) == Get(obj, KeyEdges).v

WellFormedAt(L) == {i \in 1..Len(L) : WellFormedTuple(L[i])}

\* C17 as stated: applyState skips every tuple that does not have exactly 4
\* numeric components, which adds no key and changes no degree, and adds
\* every well-formed tuple: the edge set holds the keys of the well-formed
\* tuples and no other, and only their nodes have a degree.
C17_AsStated ==
  [][\A obj \in ShapedObjs :
       (ImportStateCall(obj) /\ IsArray(Get(obj, KeyEdges)))
         => LET kept(L) ==
                  /\ {edges'[i] : i \in 1..Len(edges')}
                       = {TupleKey(L[i]) : i \in WellFormedAt(L)}
                  /\ DOMAIN degree' = UNION {TupleNodes(L[i]) : i \in WellFormedAt(L)}
            IN  kept(EdgeList(obj))]_vars

\* C20 as stated: in every state the zoom lies in [0.6, 8.0] and the viewport
\* extents are the canvas size divided by the zoom.
C20_AsStated ==
  phase = "ready" =>
    /\ zoom >= 60 /\ zoom <= 800
    /\ viewport.w = Extent(canvas.width, zoom)
    /\ viewport.h = Extent(canvas.height, zoom)

\* the lattice index nearest to a world coordinate, the upper one at a half
NearestIndex(c) ==
  CHOOSE i \in (0 - 3)..(COLS + ROWS) :
    /\ 2 * (c - Fx(BORDER)) + Fx(DOT_SPACING) >= 2 * Fx(DOT_SPACING) * i
    /\ 2 * (c - Fx(BORDER)) + Fx(DOT_SPACING) < 2 * Fx(DOT_SPACING) * (i + 1)

InBounds(i, j) == i >= 0 /\ i < COLS /\ j >= 0 /\ j < ROWS

\* the potential edges around (x, y): base node (i, j) in the 5x5 window,
\* towards the right (horizontal) or downwards, both ends in bounds; each with
\* the squared distance of its midpoint and its place in the iteration order
PotentialEdges(x, y) ==
  LET edge(i, j, di, dj, place) ==
        [a     |-> Node(i, j),
         b     |-> Node(i + di, j + dj),
         dist  |-> (Fx(BORDER) + i * Fx(DOT_SPACING) + di * (Fx(DOT_SPACING) \div 2) - x)
                     * (Fx(BORDER) + i * Fx(DOT_SPACING) + di * (Fx(DOT_SPACING) \div 2) - x)
                   + (Fx(BORDER) + j * Fx(DOT_SPACING) + dj * (Fx(DOT_SPACING) \div 2) - y)
                     * (Fx(BORDER) + j * Fx(DOT_SPACING) + dj * (Fx(DOT_SPACING) \div 2) - y),
         place |-> place]
      around(ix, iy) ==
        {edge(ix + dx, iy + dy, 1 - v, v, ((dx + 2) * 5 + (dy + 2)) * 2 + v) :
           dx \in (0 - 2)..2, dy \in (0 - 2)..2, v \in {0, 1}}
  IN  {e \in around(NearestIndex(x), NearestIndex(y)) :
         /\ InBounds(e.a.x.v \div Scale, e.a.y.v \div Scale)
         /\ InBounds(e.b.x.v \div Scale, e.b.y.v \div Scale)}

\* the result is the potential edge e
IsResult(r, e) == r.found /\ r.a = e.a /\ r.b = e.b /\ r.dist = e.dist

\* of the potential edges P, e is the nearest, and the first of the nearest
FirstNearest(P, e) ==
  \A o \in P : e.dist < o.dist \/ (e.dist = o.dist /\ e.place <= o.place)

InWorld(x, y) == x >= 0 /\ x <= Fx(fullWidth) /\ y >= 0 /\ y <= Fx(fullHeight)

\* the corner of the world whose 5x5 window holds the last node only
LastNodeCorner(x, y) == NearestIndex(x) > COLS /\ NearestIndex(y) > ROWS

\* C18 as stated: the result is a potential edge of the window at the minimum
\* squared distance, the first in iteration order of those, and there is one
\* for every query point inside the world.
C18_AsStated ==
  codec.stage = "found" =>
    LET hit(x, y, r) ==
          /\ \E e \in PotentialEdges(x, y) :
               IsResult(r, e) /\ FirstNearest(PotentialEdges(x, y), e)
          /\ InWorld(x, y) => r.found
    IN  hit(codec.input[1], codec.input[2], codec.output)

\* C18: the result is a potential edge of the window at the minimum squared
\* distance, the first in iteration order of those; there is one for every
\* query point inside the world except those nearest to the column and the row
\* two past the last, where the window holds only the last node, which has no
\* edge to the right or downwards, and the result holds no edge.
C18_FirstNearestUnlessLastCorner ==
  codec.stage = "found" =>
    LET hit(x, y, r, P) ==
          /\ P # {} => \E e \in P : IsResult(r, e) /\ FirstNearest(P, e)
          /\ P = {} => ~r.found
          /\ InWorld(x, y) => (P = {} <=> LastNodeCorner(x, y))
    IN  hit(codec.input[1], codec.input[2], codec.output,
            PotentialEdges(codec.input[1], codec.input[2]))

\* a query on a lattice node, where four edges are equally near
C18_Witness ==
  /\ codec.stage = "found"
  /\ codec.kind = "hit"
  /\ codec.output.found
  /\ LET tie(r, P) == \E e \in P, o \in P :
                         /\ IsResult(r, e)
                         /\ o.place > e.place
                         /\ o.dist = e.dist
     IN  tie(codec.output, PotentialEdges(codec.input[1], codec.input[2]))

\* the index below n whose decimal digits are s, or -1
IndexOfDigits(s, n) ==
  IF \E i \in 0..(n - 1) : Digits(i) = s
  THEN CHOOSE i \in 0..(n - 1) : Digits(i) = s
  ELSE 0 - 1

\* the key k is "c1,r1|c2,r2" with both nodes in bounds and one step apart
JoinsNeighbours(k) ==
  LET steps(c1, r1, c2, r2) ==
        /\ c1 >= 0 /\ r1 >= 0 /\ c2 >= 0 /\ r2 >= 0
        /\ Abs(c1 - c2) + Abs(r1 - r2) = 1
      nodes(n1, n2) ==
        /\ Len(n1) = 2 /\ Len(n2) = 2
        /\ steps(IndexOfDigits(n1[1], COLS), IndexOfDigits(n1[2], ROWS),
                 IndexOfDigits(n2[1], COLS), IndexOfDigits(n2[2], ROWS))
      ends(e) == Len(e) = 2 /\ nodes(Split(e[1], 44), Split(e[2], 44))
  IN  ends(Split(k, 124))

\* a and b are lattice nodes in bounds and one step apart
NeighbourNodes(a, b) ==
  /\ \A c \in {a.x, a.y, b.x, b.y} : c.t = "num" /\ c.v % Scale = 0
  /\ InBounds(a.x.v \div Scale, a.y.v \div Scale)
  /\ InBounds(b.x.v \div Scale, b.y.v \div Scale)
  /\ Abs(a.x.v - b.x.v) + Abs(a.y.v - b.y.v) = Scale

\* C19: from the default state, with pointer and keyboard events only, every
\* edge of the edge set joins two nodes within 0 <= col < COLS, 0 <= row < ROWS
\* that differ by 1 in one axis and 0 in the other, and every call of addEdge
\* or removeEdge is made on such a pair.
C19_TapsKeepPrecondition ==
  /\ \A i \in 1..Len(edges) : JoinsNeighbours(edges[i])
  /\ lastCall.op # "none" => NeighbourNodes(lastCall.a, lastCall.b)

\* two taps have added a horizontal and a vertical edge
C19_Witness ==
  /\ Len(edges) = 2
  /\ lastCall.op = "addEdge" /\ lastCall.ret
  /\ lastCall.a.x = lastCall.b.x
  /\ JoinsNeighbours(edges[1]) /\ JoinsNeighbours(edges[2])

=============================================================================
